---------------------------- MODULE Spec2Model ----------------------------
(***************************************************************************)
(* daily-tasks-app (src/src/App.tsx, v3.6.0): the task view's pure         *)
(* functions (time parsing, planned duration, grouping, totals), the       *)
(* IME-safe text editors, the task handlers with their backend calls, the  *)
(* login view, the calendar event and the performance ledger               *)
(* (src/src/features/performance/PerformanceManagement.tsx).               *)
(*                                                                         *)
(* Conventions                                                             *)
(*  - a JS string that the code parses or trims is a sequence of           *)
(*    one-character strings ("09:00" is <<"0","9",":","0","0">>);          *)
(*  - hours are integers in hundredths of an hour (9.25 h is 925), exact   *)
(*    for every value the code computes from quarter-hour times;           *)
(*  - null/undefined is a sentinel of the value's own kind.                *)
(***************************************************************************)
EXTENDS Integers, Sequences, FiniteSets, TLC

VARIABLES
    calc,       \* duration calculator: the last computation (inputs and outputs)
    edInitial,  \* editor cell: the `initial` prop (the row's saved text)
    edText,     \* editor cell: the text state (the textarea's value)
    edComposing,\* editor cell: composingRef.current
    edTimer,    \* editor cell: the pending debounce timer's text, or NoTimer
    edFocused,  \* editor cell: the textarea has the focus
    edSaves,    \* editor cell: number of onSave calls so far
    edLastSave, \* editor cell: the last onSave call (its value, and whether a
                \* composition session was open when it ran)
    edCommit,   \* editor cell: the onSave calls since the last composition end
    db,         \* backend: the rows of the tasks table, in insertion order
    nextId,     \* backend: the id the next inserted row gets
    missing,    \* backend: the optional columns the table lacks
    user,       \* App: the session user, or NoUser
    tasksMine,  \* App: the cached tasks of the user
    tasksAll,   \* App: the cached tasks of everyone
    date,       \* App: the selected day
    viewMode,   \* App: "mine" or "all"
    memberFilter, \* App: the member filter of the "all" view
    draggingId, \* App: draggingId.current
    faults,     \* requests the environment has failed so far
    last,       \* the handler that ran last and what it did
    SUPABASE_READY, \* the backend URL and public key are both configured
    loginError, \* CloudLogin: the error state (the inline message), or NoError
    loginLoading, \* CloudLogin: the loading state (the button is disabled)
    authRequests, \* sign-in requests sent to the backend so far
    event,      \* calendar: the last event built (inputs and outcome)
    perfDb,     \* backend: the rows of the performance_entries table
    records,    \* PerformanceManagement: the loaded records
    perfError,  \* PerformanceManagement: the error state, or NoError
    call,       \* DB I/O: the last cloud call on its own (answers and requests)
    flights,    \* App: the updateTask calls awaiting a backend answer, in the
                \* order they were started
    userId,     \* PerformanceManagement: the userId prop, or NoUserId
    savingKind, \* PerformanceManagement: the savingKind state, or NoKind
    loading,    \* PerformanceManagement: the loading state
    refreshIndex, \* PerformanceManagement: the refreshIndex state
    inserts,    \* PerformanceManagement: the handleSubmit calls awaiting their insert
    loads       \* PerformanceManagement: the runs of the load effect, in the
                \* order they were started

calcVars == <<calc>>
edVars == <<edInitial, edText, edComposing, edTimer, edFocused, edSaves, edLastSave,
           edCommit>>
storeVars == <<db, nextId, missing, user, tasksMine, tasksAll, date, viewMode,
               memberFilter, draggingId, faults, last>>
loginVars == <<SUPABASE_READY, loginError, loginLoading, authRequests>>
calendarVars == <<event>>
ledgerVars == <<perfDb, records, perfError>>
callVars == <<call>>
asyncVars == <<flights, userId, savingKind, loading, refreshIndex, inserts, loads>>
vars == <<calc, edInitial, edText, edComposing, edTimer, edFocused, edSaves,
          edLastSave, edCommit, db, nextId, missing, user, tasksMine, tasksAll, date,
          viewMode, memberFilter, draggingId, faults, last, SUPABASE_READY,
          loginError, loginLoading, authRequests, event, perfDb, records,
          perfError, call, flights, userId, savingKind, loading, refreshIndex,
          inserts, loads>>

---------------------------------------------------------------------------
(* Strings *)

Digits == <<"0", "1", "2", "3", "4", "5", "6", "7", "8", "9">>

IsDigit(c) == \E i \in 1..10 : Digits[i] = c

DigitVal(c) == (CHOOSE i \in 1..10 : Digits[i] = c) - 1

\* null / undefined for "string | null" values
NullStr == <<"null">>

\* null (and a non-finite number) for "number | null" values
NullNum == -999999

\* n.toString().padStart(2, "0") for 0 <= n <= 99
pad2(n) == IF n < 10 THEN <<"0", Digits[n + 1]>>
           ELSE <<Digits[(n \div 10) + 1], Digits[(n % 10) + 1]>>

\* `${pad2(h)}:${pad2(m)}`
TimeStr(h, m) == pad2(h) \o <<":">> \o pad2(m)

\* parseInt(s, 10) of a string of one or two digits
parseInt(s) == IF Len(s) = 1 THEN DigitVal(s[1])
               ELSE DigitVal(s[1]) * 10 + DigitVal(s[2])

M_OPTIONS == {0, 15, 30, 45}

H_OPTIONS == 0..23

---------------------------------------------------------------------------
(* Duration calculator *)

\* the hhmmToMinutes with its minute check dropped (any two-digit minute passes)
hhmmToMinutes_AnyMinute(hhmm) ==
    IF hhmm = NullStr \/ hhmm = <<>> THEN NullNum
    ELSE IF ~(/\ Len(hhmm) \in {4, 5}
              /\ hhmm[Len(hhmm) - 2] = ":"
              /\ \A i \in 1..Len(hhmm) : i # Len(hhmm) - 2 => IsDigit(hhmm[i]))
         THEN NullNum
    ELSE LET h  == parseInt(SubSeq(hhmm, 1, Len(hhmm) - 3))
             mm == parseInt(SubSeq(hhmm, Len(hhmm) - 1, Len(hhmm)))
         IN  IF h < 0 \/ h > 23 THEN NullNum ELSE h * 60 + mm

\* hhmmToMinutes: null for a missing value, for a string that does not match
\* /^(\d{1,2}):(\d{2})$/, for an hour above 23 and for a minute off the quarter
hhmmToMinutes(hhmm) ==
    IF hhmm = NullStr \/ hhmm = <<>> THEN NullNum
    ELSE IF ~(/\ Len(hhmm) \in {4, 5}
              /\ hhmm[Len(hhmm) - 2] = ":"
              /\ \A i \in 1..Len(hhmm) : i # Len(hhmm) - 2 => IsDigit(hhmm[i]))
         THEN NullNum
    ELSE LET h  == parseInt(SubSeq(hhmm, 1, Len(hhmm) - 3))
             mm == parseInt(SubSeq(hhmm, Len(hhmm) - 1, Len(hhmm)))
         IN  IF h < 0 \/ h > 23 \/ mm \notin M_OPTIONS THEN NullNum
             ELSE h * 60 + mm

\* Math.round(x) for x = num / den >= 0: the nearest integer, halves upwards
MathRound(num, den) == (2 * num + den) \div (2 * den)

\* the diffHoursFromTimes that wraps an end before the start past midnight
diffHoursFromTimes_Wrap(start, end) ==
    LET s == hhmmToMinutes(start)
        e == hhmmToMinutes(end)
    IN  IF s = NullNum \/ e = NullNum THEN NullNum
        ELSE LET diff == e - s
             IN  IF diff = 0 THEN 0
                 ELSE IF diff < 0 THEN MathRound((diff + 1440) * 100, 60)
                 ELSE MathRound(diff * 100, 60)

\* the diffHoursFromTimes that divides by 60 without the scaling by 100 of
\* the two-decimal rounding (whole hours only)
diffHoursFromTimes_WholeHours(start, end) ==
    LET s == hhmmToMinutes(start)
        e == hhmmToMinutes(end)
    IN  IF s = NullNum \/ e = NullNum THEN NullNum
        ELSE LET diff == e - s
             IN  IF diff <= 0 THEN 0
                 ELSE MathRound(diff, 60) * 100

\* diffHoursFromTimes, in hundredths of an hour:
\* Math.round((diff / 60) * 100) / 100 is MathRound(diff * 100, 60) hundredths
diffHoursFromTimes(start, end) ==
    LET s == hhmmToMinutes(start)
        e == hhmmToMinutes(end)
    IN  IF s = NullNum \/ e = NullNum THEN NullNum
        ELSE LET diff == e - s
             IN  IF diff <= 0 THEN 0
                 ELSE MathRound(diff * 100, 60)

\* displayPlanned: the duration of the times, else the stored plannedHours
\* (0 when that is not a finite number)
displayPlanned(t) ==
    LET d == diffHoursFromTimes(t.startTime, t.endTime)
    IN  IF d = NullNum
        THEN (IF t.plannedHours # NullNum THEN t.plannedHours ELSE 0)
        ELSE d

---------------------------------------------------------------------------
(* The calculator's inputs *)

\* strings a start_time / end_time can hold that are not HH:MM on the quarter
MalformedTimes ==
    { NullStr, <<>>,
      <<"2","4",":","0","0">>,              \* hour 24
      <<"0","9",":","2","0">>,              \* minute 20
      <<"0","9",":","6","0">>,              \* minute 60
      <<"9","9",":","9","9">>,
      <<"0","9","0","0">>,                  \* no colon
      <<"0","9",":","0">>,                  \* one-digit minute
      <<"0","0","9",":","0","0">>,          \* three-digit hour
      <<"0","9",":","0","0",":","0","0">>,  \* HH:MM:SS
      <<"a","b",":","c","d">>,
      <<"-","1",":","0","0">> }

\* hours the row samples use (all 24 are used by the form)
SampleHours == {0, 9, 18, 23}

\* well-formed samples, among them the one-digit hour the pattern admits
WellFormedSamples ==
    { TimeStr(h, m) : h \in SampleHours, m \in M_OPTIONS }
        \cup { <<"9", ":", "0", "0">>, <<"9", ":", "4", "5">> }

RowTimes == MalformedTimes \cup WellFormedSamples

\* plannedHours values of a row (hundredths): toTask makes them numbers
StoredPlanned == {0, 125, 900}

CalcIdle == [kind |-> "idle", sH |-> 0, sM |-> 0, eH |-> 0, eM |-> 0,
             startTime |-> NullStr, endTime |-> NullStr,
             plannedHours |-> 0, diff |-> NullNum, shown |-> 0]

\* addTask's computation of the planned hours from the form's four selects
CalcForm(sH, sM, eH, eM) ==
    /\ calc.kind = "idle"
    /\ LET startTime == TimeStr(sH, sM)
           endTime   == TimeStr(eH, eM)
           d         == diffHoursFromTimes(startTime, endTime)
           planned   == IF d = NullNum THEN 0 ELSE d
       IN  calc' = [kind |-> "form", sH |-> sH, sM |-> sM, eH |-> eH, eM |-> eM,
                    startTime |-> startTime, endTime |-> endTime,
                    plannedHours |-> planned, diff |-> d,
                    shown |-> displayPlanned([startTime |-> startTime,
                                              endTime |-> endTime,
                                              plannedHours |-> planned])]
    /\ UNCHANGED <<asyncVars, edVars, storeVars, loginVars, calendarVars, ledgerVars, callVars>>

\* a row's planned column: displayPlanned(row)
CalcRow(startTime, endTime, stored) ==
    /\ calc.kind = "idle"
    /\ calc' = [kind |-> "row", sH |-> 0, sM |-> 0, eH |-> 0, eM |-> 0,
                startTime |-> startTime, endTime |-> endTime,
                plannedHours |-> stored,
                diff |-> diffHoursFromTimes(startTime, endTime),
                shown |-> displayPlanned([startTime |-> startTime,
                                          endTime |-> endTime,
                                          plannedHours |-> stored])]
    /\ UNCHANGED <<asyncVars, edVars, storeVars, loginVars, calendarVars, ledgerVars, callVars>>

\* the next render
CalcReset ==
    /\ calc.kind # "idle"
    /\ calc' = CalcIdle
    /\ UNCHANGED <<asyncVars, edVars, storeVars, loginVars, calendarVars, ledgerVars, callVars>>

NextCalc ==
    \/ /\ calc.kind = "idle"
       /\ \E sH \in H_OPTIONS, sM \in M_OPTIONS, eH \in H_OPTIONS, eM \in M_OPTIONS :
             CalcForm(sH, sM, eH, eM)
    \/ /\ calc.kind = "idle"
       /\ \E s \in RowTimes, e \in RowTimes, p \in StoredPlanned : CalcRow(s, e, p)
    \/ CalcReset


---------------------------------------------------------------------------
(* IME-safe editors: RetrospectiveCell and DoneConditionCell (same code) *)

\* longest text typed into a cell
MaxText == 2

\* onSave calls followed in one behaviour
MaxSaves == 3

\* the texts of a cell
Texts == UNION { [1..n -> {"a", "b"}] : n \in 0..MaxText }

\* timerRef.current holds no pending timer
NoTimer == <<"none">>

NoSave == [value |-> <<>>, composing |-> FALSE]

\* no composition session has ended since the text was last typed
NoCommit == [ ended |-> FALSE, text |-> <<>>, saves |-> 0, timerSaves |-> 0,
              first |-> "none", value |-> <<>>, refreshed |-> FALSE ]

\* an onSave(v) call triggered by `by` ("timer" or "blur"), counted for the
\* composition session that ended last
Saved(by, v) ==
    IF edCommit.ended
    THEN [ edCommit EXCEPT !.saves = @ + 1,
                           !.timerSaves = IF by = "timer" THEN @ + 1 ELSE @,
                           !.first = IF edCommit.saves = 0 THEN by ELSE @,
                           !.value = IF edCommit.saves = 0 THEN v ELSE @ ]
    ELSE edCommit

\* onChange: setText(next); scheduleSave(next) unless composing
\* (scheduleSave clears the pending timer and sets a new one)
edOnChange(next) ==
    /\ edFocused
    /\ edText' = next
    /\ edTimer' = IF edComposing THEN edTimer ELSE next
    /\ edCommit' = NoCommit
    /\ UNCHANGED <<edInitial, edComposing, edFocused, edSaves, edLastSave>>
    /\ UNCHANGED <<asyncVars, calcVars, storeVars, loginVars, calendarVars, ledgerVars, callVars>>

\* the onCompositionStart that leaves a pending timer running
edOnCompositionStart_KeepTimer ==
    /\ edFocused /\ ~edComposing
    /\ edComposing' = TRUE
    /\ edCommit' = NoCommit
    /\ UNCHANGED <<edInitial, edText, edTimer, edFocused, edSaves, edLastSave>>
    /\ UNCHANGED <<asyncVars, calcVars, storeVars, loginVars, calendarVars, ledgerVars, callVars>>

\* onCompositionStart: composing = true; the pending timer is cleared
edOnCompositionStart ==
    /\ edFocused /\ ~edComposing
    /\ edComposing' = TRUE
    /\ edTimer' = NoTimer
    /\ edCommit' = NoCommit
    /\ UNCHANGED <<edInitial, edText, edFocused, edSaves, edLastSave>>
    /\ UNCHANGED <<asyncVars, calcVars, storeVars, loginVars, calendarVars, ledgerVars, callVars>>

\* onCompositionEnd: composing = false; setText(value); scheduleSave(value)
edOnCompositionEnd ==
    /\ edComposing
    /\ edComposing' = FALSE
    /\ edText' = edText
    /\ edTimer' = edText
    /\ edCommit' = [ NoCommit EXCEPT !.ended = TRUE, !.text = edText ]
    /\ UNCHANGED <<edInitial, edFocused, edSaves, edLastSave>>
    /\ UNCHANGED <<asyncVars, calcVars, storeVars, loginVars, calendarVars, ledgerVars, callVars>>

\* the onBlur that saves and leaves the pending timer running
edOnBlur_KeepsTimer ==
    /\ edFocused
    /\ edFocused' = FALSE
    /\ IF edComposing
       THEN UNCHANGED <<edSaves, edLastSave, edCommit>>
       ELSE /\ edSaves < MaxSaves
            /\ edSaves' = edSaves + 1
            /\ edLastSave' = [value |-> edText, composing |-> FALSE]
            /\ edCommit' = Saved("blur", edText)
    /\ UNCHANGED <<edInitial, edText, edComposing, edTimer>>
    /\ UNCHANGED <<asyncVars, calcVars, storeVars, loginVars, calendarVars, ledgerVars, callVars>>

\* onBlur: unless composing, clear the timer and onSave(value)
edOnBlur ==
    /\ edFocused
    /\ edFocused' = FALSE
    /\ IF edComposing
       THEN UNCHANGED <<edTimer, edSaves, edLastSave, edCommit>>
       ELSE /\ edSaves < MaxSaves
            /\ edTimer' = NoTimer
            /\ edSaves' = edSaves + 1
            /\ edLastSave' = [value |-> edText, composing |-> FALSE]
            /\ edCommit' = Saved("blur", edText)
    /\ UNCHANGED <<edInitial, edText, edComposing>>
    /\ UNCHANGED <<asyncVars, calcVars, storeVars, loginVars, calendarVars, ledgerVars, callVars>>

\* the debounce timer fires after debounceMs: onSave(next)
edTimerFires ==
    /\ edTimer # NoTimer
    /\ edSaves < MaxSaves
    /\ edTimer' = NoTimer
    /\ edSaves' = edSaves + 1
    /\ edLastSave' = [value |-> edTimer, composing |-> edComposing]
    /\ edCommit' = Saved("timer", edTimer)
    /\ UNCHANGED <<edInitial, edText, edComposing, edFocused>>
    /\ UNCHANGED <<asyncVars, calcVars, storeVars, loginVars, calendarVars, ledgerVars, callVars>>

\* the textarea takes the focus
edOnFocus ==
    /\ ~edFocused
    /\ edFocused' = TRUE
    /\ UNCHANGED <<edInitial, edText, edComposing, edTimer, edSaves, edLastSave,
                   edCommit>>
    /\ UNCHANGED <<asyncVars, calcVars, storeVars, loginVars, calendarVars, ledgerVars, callVars>>

\* the effect on [initial]: the row's text changed on a refresh of the cache;
\* setText(initial) unless composing
edInitialChanges(v) ==
    /\ v # edInitial
    /\ edInitial' = v
    /\ edText' = IF edComposing THEN edText ELSE v
    /\ edCommit' = IF edCommit.ended /\ edText' # edText
                   THEN [ edCommit EXCEPT !.refreshed = TRUE ] ELSE edCommit
    /\ UNCHANGED <<edComposing, edTimer, edFocused, edSaves, edLastSave>>
    /\ UNCHANGED <<asyncVars, calcVars, storeVars, loginVars, calendarVars, ledgerVars, callVars>>

NextEd ==
    \/ \E next \in Texts : edOnChange(next)
    \/ edOnCompositionStart
    \/ edOnCompositionEnd
    \/ edOnBlur
    \/ edTimerFires
    \/ edOnFocus
    \/ \E v \in {<<>>, <<"a">>} : edInitialChanges(v)

---------------------------------------------------------------------------
(* Task store: types and bounds *)

\* tasks ever inserted in one behaviour (ids are never reused)
MaxTasks == 3

\* backend requests that fail for a reason other than a missing column
\* (network, server) in one behaviour
MaxFaults == 1

CATEGORIES == <<"ads", "SEO", "sales", "AF", "other">>

\* not started, in progress, done
STATUS == <<"todo", "doing", "done">>

\* a.sortOrder ?? Number.MAX_SAFE_INTEGER: above every sort key
MAX_SAFE_INTEGER == 2147483647

\* the session users (CloudUser); NoUser is user === null
Users == { [id |-> "u1", displayName |-> <<"A">>],
           [id |-> "u2", displayName |-> <<"B">>] }

NoUser == [id |-> "", displayName |-> <<>>]

\* the selectable days
Dates == {"d1", "d2"}

\* the columns an older table may lack
OptionalCols == {"retrospective", "start_time", "end_time", "done_condition",
                 "sort_order"}

\* the table definitions the backend may have: the columns it lacks
SchemaChoices == { {}, {"sort_order"}, {"retrospective", "done_condition"} }

\* draggingId.current === null
NoId == 0

---------------------------------------------------------------------------
(* Strings of the add form *)

\* String.prototype.trim over the blank " "
RECURSIVE trimStart(_)
trimStart(s) == IF s # <<>> /\ Head(s) = " " THEN trimStart(Tail(s)) ELSE s

RECURSIVE trimEnd(_)
trimEnd(s) == IF s # <<>> /\ s[Len(s)] = " "
              THEN trimEnd(SubSeq(s, 1, Len(s) - 1)) ELSE s

trim(s) == trimEnd(trimStart(s))

---------------------------------------------------------------------------
(* Backend: the tasks table behind supabase.from("tasks") *)

\* a response of the backend to one request: "ok", "net" (a failure that is
\* not about a column) or the name of a missing column the error reports
Responses == {"ok", "net"} \cup OptionalCols

\* the words of the error message of a response
ErrorMessage(r) == IF r = "net" THEN {"failed to fetch"}
                   ELSE {r, "column", "does not exist"}

\* noSuchColumn(err, col): the message names col and says "does not exist"
\* or "column"
noSuchColumn(r, col) ==
    col \in ErrorMessage(r)
        /\ ("does not exist" \in ErrorMessage(r) \/ "column" \in ErrorMessage(r))

\* the backend can answer r to a write of the optional columns cols: a
\* missing column among them is reported (one of them), nothing else is
CanAnswer(cols, r) ==
    CASE r = "ok"  -> cols \cap missing = {}
      [] r = "net" -> TRUE
      [] OTHER     -> r \in cols \cap missing

\* the stored row of an insert: the columns sent, null for the others; the
\* id is generated by the table
InsertedRow(t, ownerId, cols, id) ==
    [ id |-> id,
      owner_id |-> ownerId,
      member |-> t.member,
      name |-> t.name,
      category |-> t.category,
      planned_hours |-> t.plannedHours,
      actual_hours |-> t.actualHours,
      status |-> t.status,
      date |-> t.date,
      created_at |-> t.createdAt,
      retrospective |-> IF "retrospective" \in cols THEN t.retrospective ELSE NullStr,
      start_time |-> IF "start_time" \in cols THEN t.startTime ELSE NullStr,
      end_time |-> IF "end_time" \in cols THEN t.endTime ELSE NullStr,
      done_condition |-> IF "done_condition" \in cols THEN t.doneCondition ELSE NullStr,
      sort_order |-> IF "sort_order" \in cols THEN t.sortOrder ELSE NullNum ]

\* update(payload).eq("id", id).eq("owner_id", ownerId) with the owner
\* filter left out
UpdatedRows_AnyOwner(rows, payload, id, ownerId) ==
    [ i \in 1..Len(rows) |->
        IF rows[i].id = id
        THEN [ c \in DOMAIN rows[i] |->
                 IF c \in DOMAIN payload THEN payload[c] ELSE rows[i][c] ]
        ELSE rows[i] ]

\* update(payload).eq("id", id).eq("owner_id", ownerId)
UpdatedRows(rows, payload, id, ownerId) ==
    [ i \in 1..Len(rows) |->
        IF rows[i].id = id /\ rows[i].owner_id = ownerId
        THEN [ c \in DOMAIN rows[i] |->
                 IF c \in DOMAIN payload THEN payload[c] ELSE rows[i][c] ]
        ELSE rows[i] ]

RECURSIVE FilterSeq(_, _)
FilterSeq(s, keep) ==
    IF s = <<>> THEN <<>>
    ELSE IF Head(s) \in keep THEN <<Head(s)>> \o FilterSeq(Tail(s), keep)
    ELSE FilterSeq(Tail(s), keep)

Elems(s) == { s[i] : i \in 1..Len(s) }

\* delete().eq("id", id).eq("owner_id", ownerId)
DeletedRows(rows, id, ownerId) ==
    FilterSeq(rows, { r \in Elems(rows) : ~(r.id = id /\ r.owner_id = ownerId) })

\* toTask: a fetched row as a Task
toTask(r) ==
    [ id |-> r.id,
      ownerId |-> r.owner_id,
      member |-> r.member,
      name |-> r.name,
      category |-> r.category,
      plannedHours |-> IF r.planned_hours = NullNum THEN 0 ELSE r.planned_hours,
      actualHours |-> IF r.actual_hours = NullNum THEN 0 ELSE r.actual_hours,
      status |-> r.status,
      date |-> r.date,
      createdAt |-> r.created_at,
      retrospective |-> IF r.retrospective = NullStr THEN <<>> ELSE r.retrospective,
      startTime |-> r.start_time,
      endTime |-> r.end_time,
      doneCondition |-> IF r.done_condition = NullStr THEN <<>> ELSE r.done_condition,
      sortOrder |-> r.sort_order ]

\* cloudFetchAll: select("*")
cloudFetchAll(rows) == [ i \in 1..Len(rows) |-> toTask(rows[i]) ]

\* cloudFetchMine: select("*").eq("owner_id", ownerId)
cloudFetchMine(rows, ownerId) ==
    cloudFetchAll(FilterSeq(rows, { r \in Elems(rows) : r.owner_id = ownerId }))

---------------------------------------------------------------------------
(* DB I/O with the column-stripping retry *)

\* the retry that carries none of the optional columns
InsertRetryCols_None(r1) == {}

\* the optional columns the retry of cloudInsertTask carries after the error r1
InsertRetryCols(r1) == { c \in OptionalCols : ~noSuchColumn(r1, c) }

\* cloudInsertTask, the backend answering r1 to the first request and r2 to
\* the retry: whether it returned (ok) or threw, the table afterwards, the
\* number of requests sent and the optional columns each carried
cloudInsertTask(rows, t, ownerId, id, r1, r2) ==
    IF r1 = "ok"
    THEN [ ok |-> TRUE,
           rows |-> Append(rows, InsertedRow(t, ownerId, OptionalCols, id)),
           requests |-> 1, most |-> 1, sent |-> <<OptionalCols>> ]
    ELSE [ ok |-> r2 = "ok",
           rows |-> IF r2 = "ok"
                    THEN Append(rows, InsertedRow(t, ownerId, InsertRetryCols(r1), id))
                    ELSE rows,
           requests |-> 2, most |-> 2,
           sent |-> <<OptionalCols, InsertRetryCols(r1)>> ]

\* the answers the backend can give to an insert (r2 = "ok" when no retry
\* is sent)
InsertAnswers ==
    { rr \in Responses \X Responses :
        /\ CanAnswer(OptionalCols, rr[1])
        /\ IF rr[1] = "ok" THEN rr[2] = "ok"
           ELSE CanAnswer(InsertRetryCols(rr[1]), rr[2]) }

\* the keys of a Partial<Task> patch and their columns (toDb)
PatchCol == [ actualHours |-> "actual_hours", status |-> "status",
              plannedHours |-> "planned_hours", retrospective |-> "retrospective",
              startTime |-> "start_time", endTime |-> "end_time",
              doneCondition |-> "done_condition", sortOrder |-> "sort_order" ]

\* toDb(patch): the payload of an update
toDb(patch) ==
    LET keys == DOMAIN patch
        cols == { PatchCol[k] : k \in keys }
    IN  [ c \in cols |-> patch[CHOOSE k \in keys : PatchCol[k] = c] ]

\* needRetry: the error reports a column of the patch missing
needRetry(patch, r1) ==
    \E k \in DOMAIN patch \cap {"retrospective", "startTime", "endTime",
                                 "doneCondition", "sortOrder"} :
        noSuchColumn(r1, PatchCol[k])

\* p2: the patch without the keys whose column the error reports missing
StripPatch(patch, r1) ==
    [ k \in { k \in DOMAIN patch : ~noSuchColumn(r1, PatchCol[k]) } |-> patch[k] ]

\* the optional columns of the payload of a patch
PatchCols(patch) == { PatchCol[k] : k \in DOMAIN patch } \cap OptionalCols

\* the cloudUpdateTask that retries again after a failed retry
cloudUpdateTask_RetryTwice(rows, id, ownerId, patch, r1, r2) ==
    LET p2 == StripPatch(patch, r1)
    IN  IF r1 = "ok"
        THEN [ ok |-> TRUE, rows |-> UpdatedRows(rows, toDb(patch), id, ownerId),
               requests |-> 1, most |-> 1, sent |-> <<PatchCols(patch)>> ]
        ELSE IF needRetry(patch, r1)
        THEN [ ok |-> r2 = "ok",
               rows |-> IF r2 = "ok" THEN UpdatedRows(rows, toDb(p2), id, ownerId)
                        ELSE rows,
               requests |-> IF r2 = "ok" THEN 2 ELSE 3,
               most |-> IF r2 = "ok" THEN 2 ELSE 3,
               sent |-> IF r2 = "ok" THEN <<PatchCols(patch), PatchCols(p2)>>
                        ELSE <<PatchCols(patch), PatchCols(p2), PatchCols(p2)>> ]
        ELSE [ ok |-> FALSE, rows |-> rows, requests |-> 1, most |-> 1,
               sent |-> <<PatchCols(patch)>> ]

\* the cloudUpdateTask that sends its retry after any error
cloudUpdateTask_RetryAlways(rows, id, ownerId, patch, r1, r2) ==
    LET p2 == StripPatch(patch, r1)
    IN  IF r1 = "ok"
        THEN [ ok |-> TRUE, rows |-> UpdatedRows(rows, toDb(patch), id, ownerId),
               requests |-> 1, most |-> 1, sent |-> <<PatchCols(patch)>> ]
        ELSE [ ok |-> r2 = "ok",
               rows |-> IF r2 = "ok" THEN UpdatedRows(rows, toDb(p2), id, ownerId)
                        ELSE rows,
               requests |-> 2, most |-> 2,
               sent |-> <<PatchCols(patch), PatchCols(p2)>> ]

\* cloudUpdateTask, the backend answering r1 and, to the retry, r2
cloudUpdateTask(rows, id, ownerId, patch, r1, r2) ==
    LET p2 == StripPatch(patch, r1)
    IN  IF r1 = "ok"
        THEN [ ok |-> TRUE, rows |-> UpdatedRows(rows, toDb(patch), id, ownerId),
               requests |-> 1, most |-> 1, sent |-> <<PatchCols(patch)>> ]
        ELSE IF needRetry(patch, r1)
        THEN [ ok |-> r2 = "ok",
               rows |-> IF r2 = "ok" THEN UpdatedRows(rows, toDb(p2), id, ownerId)
                        ELSE rows,
               requests |-> 2, most |-> 2,
               sent |-> <<PatchCols(patch), PatchCols(p2)>> ]
        ELSE [ ok |-> FALSE, rows |-> rows, requests |-> 1, most |-> 1,
               sent |-> <<PatchCols(patch)>> ]

\* the answers the backend can give to the update of a patch
UpdateAnswers(patch) ==
    { rr \in Responses \X Responses :
        /\ CanAnswer(PatchCols(patch), rr[1])
        /\ IF rr[1] # "ok" /\ needRetry(patch, rr[1])
           THEN CanAnswer(PatchCols(StripPatch(patch, rr[1])), rr[2])
           ELSE rr[2] = "ok" }

\* cloudDeleteTask, the backend answering r ("ok" or "net")
cloudDeleteTask(rows, id, ownerId, r) ==
    [ ok |-> r = "ok",
      rows |-> IF r = "ok" THEN DeletedRows(rows, id, ownerId) ELSE rows,
      requests |-> 1, most |-> 1, sent |-> <<{}>> ]

\* the failures among the answers that are not about a column
NetCount(rs) == Cardinality({ i \in 1..Len(rs) : rs[i] = "net" })

---------------------------------------------------------------------------
(* View projector *)

\* sourceTasks
sourceTasks == IF viewMode = "all" THEN tasksAll ELSE tasksMine

AllMembers == <<"a", "l", "l">>

\* t.member || "-"
MemberLabel(t) == IF t.member = <<>> THEN <<"-">> ELSE t.member

\* filteredByMember
filteredByMember ==
    IF viewMode # "all" \/ memberFilter = AllMembers THEN sourceTasks
    ELSE FilterSeq(sourceTasks,
                   { t \in Elems(sourceTasks) : MemberLabel(t) = memberFilter })

\* tasksForDay
tasksForDay ==
    FilterSeq(filteredByMember, { t \in Elems(filteredByMember) : t.date = date })

\* the comparator that takes an absent sortOrder as 0
CompareTasks_AbsentFirst(a, b) ==
    LET sa == IF a.sortOrder = NullNum THEN 0 ELSE a.sortOrder
        sb == IF b.sortOrder = NullNum THEN 0 ELSE b.sortOrder
    IN  IF sa # sb THEN sa - sb ELSE a.createdAt - b.createdAt

\* the comparator of grouped and handleDrop: sortOrder (absent last), then
\* createdAt; negative, zero or positive
CompareTasks(a, b) ==
    LET sa == IF a.sortOrder = NullNum THEN MAX_SAFE_INTEGER ELSE a.sortOrder
        sb == IF b.sortOrder = NullNum THEN MAX_SAFE_INTEGER ELSE b.sortOrder
    IN  IF sa # sb THEN sa - sb ELSE a.createdAt - b.createdAt

\* t put into the sorted s behind every element that does not come after it
RECURSIVE InsertSorted(_, _)
InsertSorted(s, t) ==
    IF s = <<>> THEN <<t>>
    ELSE IF CompareTasks(s[Len(s)], t) <= 0 THEN Append(s, t)
    ELSE Append(InsertSorted(SubSeq(s, 1, Len(s) - 1), t), s[Len(s)])

\* Array.prototype.sort with CompareTasks (stable)
RECURSIVE SortTasks(_)
SortTasks(s) ==
    IF s = <<>> THEN <<>>
    ELSE InsertSorted(SortTasks(SubSeq(s, 1, Len(s) - 1)), s[Len(s)])

\* the rows of the displayed group of a member label, in display order
GroupRows(label) ==
    SortTasks(FilterSeq(tasksForDay,
                        { t \in Elems(tasksForDay) : MemberLabel(t) = label }))

\* the keys of the Map of grouped, in the order of their first task
RECURSIVE GroupKeys(_)
GroupKeys(s) ==
    IF s = <<>> THEN <<>>
    ELSE LET rest == GroupKeys(SubSeq(s, 1, Len(s) - 1))
             key == MemberLabel(s[Len(s)])
         IN  IF key \in Elems(rest) THEN rest ELSE Append(rest, key)

\* the collation order of the characters of member labels: the blank, the
\* hyphen, then the letters
CollationRank == [ c \in {" ", "-", "A", "B"} |->
                     CASE c = " " -> 0 [] c = "-" -> 1 [] c = "A" -> 2 [] c = "B" -> 3 ]

\* a.localeCompare(b): negative, zero or positive
RECURSIVE localeCompare(_, _)
localeCompare(a, b) ==
    IF a = <<>> /\ b = <<>> THEN 0
    ELSE IF a = <<>> THEN -1
    ELSE IF b = <<>> THEN 1
    ELSE IF CollationRank[Head(a)] # CollationRank[Head(b)]
         THEN CollationRank[Head(a)] - CollationRank[Head(b)]
    ELSE localeCompare(Tail(a), Tail(b))

\* the key k put into the sorted keys s (stable)
RECURSIVE InsertKey(_, _)
InsertKey(s, k) ==
    IF s = <<>> THEN <<k>>
    ELSE IF localeCompare(s[Len(s)], k) <= 0 THEN Append(s, k)
    ELSE Append(InsertKey(SubSeq(s, 1, Len(s) - 1), k), s[Len(s)])

\* the entries sorted with localeCompare on their keys
RECURSIVE SortKeys(_)
SortKeys(s) ==
    IF s = <<>> THEN <<>>
    ELSE InsertKey(SortKeys(SubSeq(s, 1, Len(s) - 1)), s[Len(s)])

\* grouped: the entries [member label, sorted tasks] in display order
grouped ==
    LET keys == SortKeys(GroupKeys(tasksForDay))
    IN  [ i \in 1..Len(keys) |-> [ label |-> keys[i], rows |-> GroupRows(keys[i]) ] ]

RECURSIVE SumPlanned(_)
SumPlanned(s) == IF s = <<>> THEN 0 ELSE displayPlanned(Head(s)) + SumPlanned(Tail(s))

\* the reduce over actualHours (a non-finite value counts 0)
RECURSIVE SumActual(_)
SumActual(s) ==
    IF s = <<>> THEN 0
    ELSE (IF Head(s).actualHours # NullNum THEN Head(s).actualHours ELSE 0)
             + SumActual(Tail(s))

\* the totals that sum the whole source list of the view, whatever the day
totals_AllDays ==
    [ planned |-> MathRound(SumPlanned(filteredByMember), 1),
      actual |-> SumActual(filteredByMember) ]

\* totals: planned is Math.round(p * 100) / 100, in hundredths
totals ==
    [ planned |-> MathRound(SumPlanned(tasksForDay), 1),
      actual |-> SumActual(tasksForDay) ]

\* memberOptions: the trimmed members of tasksAll and the user's name
memberOptions ==
    { trim(t.member) : t \in { x \in Elems(tasksAll) : trim(x.member) # <<>> } }
        \cup (IF user.displayName # <<>> THEN {user.displayName} ELSE {})

\* membersFilterList
membersFilterList == {AllMembers} \cup memberOptions

\* canEditTask
canEditTask(t) == t.ownerId = user.id

---------------------------------------------------------------------------
(* Handlers *)

NoAlerts == {}

\* the outcome of the handler that ran last: id is the task it was called
\* for (the target of a drop, the inserted task of an add), drag the dragged
\* task and from, to the 0-based indexes of the two in the group; done is
\* "skipped" (an early return), "ok" or "failed" (the catch branch); writes
\* and fetches count the requests sent, most is the largest number of
\* requests of one cloud call; alerts are the alert() calls; reset: the add
\* form was cleared
LastNone == [ op |-> "none", id |-> NoId, drag |-> NoId, from |-> -1, to |-> -1,
              done |-> "skipped", writes |-> 0, most |-> 0, fetches |-> 0,
              alerts |-> NoAlerts, reset |-> FALSE, calendar |-> "off" ]

\* cloudFetchMine then cloudFetchAll, the backend answering ff[1] and ff[2]
Refetch(rows, ownerId, ff) ==
    [ ok |-> ff[1] = "ok" /\ ff[2] = "ok",
      mine |-> cloudFetchMine(rows, ownerId),
      all |-> cloudFetchAll(rows),
      fetches |-> IF ff[1] = "ok" THEN 2 ELSE 1 ]

\* the answers to the two fetches (the second is not sent after a failure)
FetchAnswers == { <<"ok", "ok">>, <<"ok", "net">>, <<"net", "ok">> }

\* no fetch is sent
NoFetch == { <<"ok", "ok">> }

\* the environment may fail the requests answered "net" in rs
WithinFaults(rs) == faults + NetCount(rs) <= MaxFaults

\* sameGroup of addTask: the cached tasks of the day, the member as typed
\* and the user
sameGroup(member) ==
    FilterSeq(tasksAll, { t \in Elems(tasksAll) :
        t.date = date /\ t.member = member /\ t.ownerId = user.id })

RECURSIVE MaxOrder(_)
MaxOrder(s) ==
    IF s = <<>> THEN 0
    ELSE LET m == MaxOrder(SubSeq(s, 1, Len(s) - 1))
             o == IF s[Len(s)].sortOrder = NullNum THEN 0 ELSE s[Len(s)].sortOrder
         IN  IF o > m THEN o ELSE m

\* nextOrder of addTask
nextOrder(member) == MaxOrder(sameGroup(member)) + 10

\* Date.now(): later at every add
DateNow == nextId

\* the outcomes of the calendar call: "off" (not requested), "ok", "failed"
CalendarOutcomes(cal) == IF cal THEN {"ok", "failed"} ELSE {"off"}

\* the handler in which a failed calendar call ends in the outer catch
Settle_CalendarAborts(op, id, drag, wr, ref, answers, alert, calendar) ==
    /\ faults' = faults + NetCount(answers)
    /\ db' = wr.rows
    /\ tasksMine' = IF wr.ok /\ ref.ok /\ calendar # "failed" THEN ref.mine ELSE tasksMine
    /\ tasksAll' = IF wr.ok /\ ref.ok /\ calendar # "failed" THEN ref.all ELSE tasksAll
    /\ last' = [ op |-> op, id |-> id,
                 drag |-> drag[1], from |-> drag[2], to |-> drag[3],
                 done |-> IF wr.ok /\ ref.ok /\ calendar # "failed" THEN "ok" ELSE "failed",
                 writes |-> wr.requests,
                 most |-> wr.most,
                 fetches |-> IF wr.ok /\ calendar # "failed" THEN ref.fetches ELSE 0,
                 alerts |-> (IF (wr.ok /\ ref.ok /\ calendar # "failed")
                                \/ op = "load" THEN {} ELSE {alert})
                     \cup (IF calendar = "failed" THEN {"calendar"} ELSE {}),
                 reset |-> op = "add" /\ wr.ok /\ ref.ok /\ calendar # "failed",
                 calendar |-> calendar ]

\* the handler whose catch branch empties both lists
Settle_EmptiesOnFailure(op, id, drag, wr, ref, answers, alert, calendar) ==
    /\ faults' = faults + NetCount(answers)
    /\ db' = wr.rows
    /\ tasksMine' = IF wr.ok /\ ref.ok THEN ref.mine ELSE <<>>
    /\ tasksAll' = IF wr.ok /\ ref.ok THEN ref.all ELSE <<>>
    /\ last' = [ op |-> op, id |-> id,
                 drag |-> drag[1], from |-> drag[2], to |-> drag[3],
                 done |-> IF wr.ok /\ ref.ok THEN "ok" ELSE "failed",
                 writes |-> wr.requests,
                 most |-> wr.most,
                 fetches |-> IF wr.ok THEN ref.fetches ELSE 0,
                 alerts |-> (IF (wr.ok /\ ref.ok) \/ op = "load" THEN {} ELSE {alert})
                     \cup (IF calendar = "failed" THEN {"calendar"} ELSE {}),
                 reset |-> op = "add" /\ wr.ok /\ ref.ok,
                 calendar |-> calendar ]

\* what a handler does after its write wr, the backend answering to the
\* refetch ref: on success both lists are set; a failure of the write or of
\* a fetch ends in the catch branch with the alert. calendar is the outcome
\* of addTask's calendar call, drag = <<dragId, fromIdx, toIdx>> of a drop.
Settle(op, id, drag, wr, ref, answers, alert, calendar) ==
    /\ faults' = faults + NetCount(answers)
    /\ db' = wr.rows
    /\ tasksMine' = IF wr.ok /\ ref.ok THEN ref.mine ELSE tasksMine
    /\ tasksAll' = IF wr.ok /\ ref.ok THEN ref.all ELSE tasksAll
    /\ last' = [ op |-> op, id |-> id,
                 drag |-> drag[1], from |-> drag[2], to |-> drag[3],
                 done |-> IF wr.ok /\ ref.ok THEN "ok" ELSE "failed",
                 writes |-> wr.requests,
                 most |-> wr.most,
                 fetches |-> IF wr.ok THEN ref.fetches ELSE 0,
                 alerts |-> (IF (wr.ok /\ ref.ok) \/ op = "load" THEN {} ELSE {alert})
                     \cup (IF calendar = "failed" THEN {"calendar"} ELSE {}),
                 reset |-> op = "add" /\ wr.ok /\ ref.ok,
                 calendar |-> calendar ]

\* the write wr of a handler, then the refetch and the handler's end
Finish(op, id, drag, wr, ff, answers, alert, calendar) ==
    Settle(op, id, drag, wr, Refetch(wr.rows, user.id, ff), answers, alert, calendar)

\* no drag
NoDrag == <<NoId, -1, -1>>

\* base of addTask: the new task
NewTask(name, member, tm, startTime, endTime, d) ==
    [ name |-> trim(name),
      category |-> CATEGORIES[1],
      plannedHours |-> IF d = NullNum THEN 0 ELSE d,
      actualHours |-> 0,
      status |-> STATUS[1],
      date |-> date,
      createdAt |-> DateNow,
      member |-> trim(member),
      ownerId |-> user.id,
      retrospective |-> <<>>,
      startTime |-> startTime,
      endTime |-> endTime,
      doneCondition |-> <<>>,
      sortOrder |-> nextOrder(member) ]

\* addTask with the form holding name, member, the four time selects tm and
\* the calendar checkbox cal
addTask(name, member, tm, cal) ==
    /\ user # NoUser
    /\ IF trim(name) = <<>> \/ trim(member) = <<>>
       THEN /\ last' = [LastNone EXCEPT !.op = "add"]
            /\ UNCHANGED <<db, nextId, tasksMine, tasksAll, faults>>
       ELSE /\ nextId <= MaxTasks
            /\ \E rr \in InsertAnswers :
               \E ff \in (IF rr[1] = "ok" \/ rr[2] = "ok" THEN FetchAnswers ELSE NoFetch) :
               \E calendar \in (IF rr[1] = "ok" \/ rr[2] = "ok"
                                 THEN CalendarOutcomes(cal) ELSE {"off"}) :
                 /\ WithinFaults(rr \o ff)
                 /\ nextId' = IF rr[1] = "ok" \/ rr[2] = "ok" THEN nextId + 1 ELSE nextId
                 /\ Finish("add",
                           IF rr[1] = "ok" \/ rr[2] = "ok" THEN nextId ELSE NoId,
                           NoDrag,
                           cloudInsertTask(db,
                               NewTask(name, member, tm, TimeStr(tm[1], tm[2]),
                                       TimeStr(tm[3], tm[4]),
                                       diffHoursFromTimes(TimeStr(tm[1], tm[2]),
                                                          TimeStr(tm[3], tm[4]))),
                               user.id, nextId, rr[1], rr[2]),
                           ff, rr \o ff, "add", calendar)
    /\ UNCHANGED <<missing, user, date, viewMode, memberFilter, draggingId>>
    /\ UNCHANGED <<asyncVars, calcVars, edVars, loginVars, calendarVars, ledgerVars, callVars>>

\* updateTask(id, patch)
updateTask(id, patch) ==
    /\ user # NoUser
    /\ \E rr \in UpdateAnswers(patch) :
       \E ff \in (IF cloudUpdateTask(<<>>, id, user.id, patch, rr[1], rr[2]).ok
                   THEN FetchAnswers ELSE NoFetch) :
         /\ WithinFaults(rr \o ff)
         /\ Finish("update", id, NoDrag,
                   cloudUpdateTask(db, id, user.id, patch, rr[1], rr[2]),
                   ff, rr \o ff, "update", "off")
    /\ UNCHANGED <<nextId, missing, user, date, viewMode, memberFilter, draggingId>>
    /\ UNCHANGED <<asyncVars, calcVars, edVars, loginVars, calendarVars, ledgerVars, callVars>>

\* deleteTask(id)
deleteTask(id) ==
    /\ user # NoUser
    /\ \E r \in {"ok", "net"} :
       \E ff \in (IF r = "ok" THEN FetchAnswers ELSE NoFetch) :
         /\ WithinFaults(<<r>> \o ff)
         /\ Finish("delete", id, NoDrag, cloudDeleteTask(db, id, user.id, r),
                   ff, <<r>> \o ff, "delete", "off")
    /\ UNCHANGED <<nextId, missing, user, date, viewMode, memberFilter, draggingId>>
    /\ UNCHANGED <<asyncVars, calcVars, edVars, loginVars, calendarVars, ledgerVars, callVars>>

\* findIndex(t => t.id === id): 0-based, -1 when absent
findIndex(s, id) ==
    IF \E i \in 1..Len(s) : s[i].id = id
    THEN (CHOOSE i \in 1..Len(s) : s[i].id = id /\ \A j \in 1..(i - 1) : s[j].id # id) - 1
    ELSE -1

\* the array after splice(i, 1), i 0-based
SpliceOut(s, i) == SubSeq(s, 1, i) \o SubSeq(s, i + 2, Len(s))

\* the array after splice(i, 0, x), i 0-based (past the end: appended)
SpliceIn(s, i, x) ==
    IF i >= Len(s) THEN Append(s, x)
    ELSE SubSeq(s, 1, i) \o <<x>> \o SubSeq(s, i + 1, Len(s))

\* allByGroup of handleDrop: the cached tasks of the target's day and
\* member that the user owns, in display order
allByGroup(targetRow) ==
    SortTasks(FilterSeq(tasksAll, { t \in Elems(tasksAll) :
        t.date = targetRow.date /\ t.member = targetRow.member
            /\ t.ownerId = user.id }))

\* the reordering that always puts the moved task in front of the target
reordered_BeforeTarget(group, fromIdx, toIdx) ==
    LET without == SpliceOut(group, fromIdx)
    IN  SpliceIn(without, IF fromIdx < toIdx THEN toIdx - 1 ELSE toIdx,
                 group[fromIdx + 1])

\* the reordering that swaps the moved task and the target
reordered_Swap(group, fromIdx, toIdx) ==
    [ i \in 1..Len(group) |->
        IF i = fromIdx + 1 THEN group[toIdx + 1]
        ELSE IF i = toIdx + 1 THEN group[fromIdx + 1]
        ELSE group[i] ]

\* next of handleDrop: the moved task taken out and put in at toIdx
reordered(group, fromIdx, toIdx) ==
    SpliceIn(SpliceOut(group, fromIdx), toIdx, group[fromIdx + 1])

\* updates of handleDrop: { id, sortOrder: (i + 1) * 10 } with i 0-based
renumbered(next) ==
    [ i \in 1..Len(next) |-> [id |-> next[i].id, sortOrder |-> i * 10] ]

\* the answer the backend gives to the first request of a sort-key write
\* that goes through
KeyWriteAnswer == IF "sort_order" \in missing THEN "sort_order" ELSE "ok"

\* the loop that goes on with the later writes after one has thrown
RECURSIVE DropWrites_KeepsGoing(_, _, _, _, _, _)
DropWrites_KeepsGoing(rows, updates, n, k, rr, wr) ==
    IF n > Len(updates)
    THEN [ ok |-> k = 0, rows |-> rows, requests |-> wr.requests, most |-> wr.most ]
    ELSE LET run == cloudUpdateTask(rows, updates[n].id, user.id,
                                    [sortOrder |-> updates[n].sortOrder],
                                    IF n = k THEN rr[1] ELSE KeyWriteAnswer,
                                    IF n = k THEN rr[2] ELSE "ok")
             sofar == [ requests |-> wr.requests + run.requests,
                        most |-> IF run.most > wr.most THEN run.most ELSE wr.most ]
         IN  DropWrites_KeepsGoing(run.rows, updates, n + 1, k, rr, sofar)

\* the for loop of handleDrop over updates from its n-th write on, rows
\* being the table and wr the requests so far; k = 0: every write goes
\* through; k > 0: the k-th write throws, the backend answering rr to it
RECURSIVE DropWrites(_, _, _, _, _, _)
DropWrites(rows, updates, n, k, rr, wr) ==
    IF n > Len(updates)
    THEN [ ok |-> TRUE, rows |-> rows, requests |-> wr.requests, most |-> wr.most ]
    ELSE LET run == cloudUpdateTask(rows, updates[n].id, user.id,
                                    [sortOrder |-> updates[n].sortOrder],
                                    IF n = k THEN rr[1] ELSE KeyWriteAnswer,
                                    IF n = k THEN rr[2] ELSE "ok")
             sofar == [ requests |-> wr.requests + run.requests,
                        most |-> IF run.most > wr.most THEN run.most ELSE wr.most ]
         IN  IF run.ok
             THEN DropWrites(run.rows, updates, n + 1, k, rr, sofar)
             ELSE [ ok |-> FALSE, rows |-> run.rows, requests |-> sofar.requests,
                    most |-> sofar.most ]

\* the answers with which a sort-key write throws
KeyWriteFailures ==
    { rr \in UpdateAnswers([sortOrder |-> 10]) :
        ~cloudUpdateTask(<<>>, NoId, "", [sortOrder |-> 10], rr[1], rr[2]).ok }

\* handleDragStart(row.id) of a draggable row
handleDragStart(row) ==
    /\ user # NoUser
    /\ canEditTask(row)
    /\ draggingId' = row.id
    /\ last' = LastNone
    /\ UNCHANGED <<db, nextId, missing, user, tasksMine, tasksAll, date, viewMode,
                   memberFilter, faults>>
    /\ UNCHANGED <<asyncVars, calcVars, edVars, loginVars, calendarVars, ledgerVars, callVars>>

\* the drop that does not return when the task is dropped on itself
DropGroup_OntoItself(targetRow, dragId, group, fromIdx, toIdx) ==
    IF dragId = NoId \/ fromIdx < 0 \/ toIdx < 0
    THEN /\ last' = [ LastNone EXCEPT !.op = "drop", !.id = targetRow.id,
                                      !.drag = dragId, !.from = fromIdx,
                                      !.to = toIdx ]
         /\ UNCHANGED <<db, tasksMine, tasksAll, faults>>
    ELSE \E k \in 0..Len(group) :
         \E rr \in (IF k = 0 THEN {<<"ok", "ok">>} ELSE KeyWriteFailures) :
         \E ff \in (IF k = 0 THEN FetchAnswers ELSE NoFetch) :
           /\ WithinFaults(rr \o ff)
           /\ Finish("drop", targetRow.id, <<dragId, fromIdx, toIdx>>,
                     DropWrites(db, renumbered(reordered(group, fromIdx, toIdx)), 1, k, rr,
                               [requests |-> 0, most |-> 0]),
                     ff, rr \o ff, "reorder", "off")

\* the writes of handleDrop for the dragged task at fromIdx and the target
\* at toIdx of group, then the refetch
DropGroup(targetRow, dragId, group, fromIdx, toIdx) ==
    IF dragId = NoId \/ dragId = targetRow.id \/ fromIdx < 0 \/ toIdx < 0
    THEN /\ last' = [ LastNone EXCEPT !.op = "drop", !.id = targetRow.id,
                                      !.drag = dragId, !.from = fromIdx,
                                      !.to = toIdx ]
         /\ UNCHANGED <<db, tasksMine, tasksAll, faults>>
    ELSE \E k \in 0..Len(group) :
         \E rr \in (IF k = 0 THEN {<<"ok", "ok">>} ELSE KeyWriteFailures) :
         \E ff \in (IF k = 0 THEN FetchAnswers ELSE NoFetch) :
           /\ WithinFaults(rr \o ff)
           /\ Finish("drop", targetRow.id, <<dragId, fromIdx, toIdx>>,
                     DropWrites(db, renumbered(reordered(group, fromIdx, toIdx)), 1, k, rr,
                               [requests |-> 0, most |-> 0]),
                     ff, rr \o ff, "reorder", "off")

\* handleDrop(targetRow)
handleDrop(targetRow) ==
    /\ user # NoUser
    /\ draggingId' = NoId
    /\ DropGroup(targetRow, draggingId, allByGroup(targetRow),
                 findIndex(allByGroup(targetRow), draggingId),
                 findIndex(allByGroup(targetRow), targetRow.id))
    /\ UNCHANGED <<nextId, missing, user, date, viewMode, memberFilter>>
    /\ UNCHANGED <<asyncVars, calcVars, edVars, loginVars, calendarVars, ledgerVars, callVars>>

---------------------------------------------------------------------------
(* updateTask, await by await: calls started before the earlier ones have  *)
(* returned                                                                *)

\* updateTask calls followed in one behaviour
MaxFlights == 2

\* the patches of the actual-hours input and of the status select
FlightPatches == { [actualHours |-> 100], [actualHours |-> 200], [status |-> "done"] }

\* updateTask(id, patch) is called: the write request is sent
updateTaskCalled(id, patch) ==
    /\ user # NoUser
    /\ Len(flights) < MaxFlights
    /\ flights' = Append(flights,
           [ pc |-> "write", id |-> id, patch |-> patch, ownerId |-> user.id,
             mine |-> <<>>, all |-> <<>>, alerts |-> NoAlerts ])
    /\ UNCHANGED <<userId, savingKind, loading, refreshIndex, inserts, loads>>
    /\ UNCHANGED <<calcVars, edVars, storeVars, loginVars, calendarVars, ledgerVars,
                   callVars>>

\* the call's catch branch: alert("更新に失敗しました。")
Caught(f) == [ f EXCEPT !.pc = "done", !.alerts = {"update"} ]

\* await cloudUpdateTask(id, user.id, patch) returns or throws; on return
\* cloudFetchMine is sent
updateWritten(i) ==
    /\ flights[i].pc = "write"
    /\ \E rr \in UpdateAnswers(flights[i].patch) :
       \E wr \in { cloudUpdateTask(db, flights[i].id, flights[i].ownerId,
                                   flights[i].patch, rr[1], rr[2]) } :
         /\ WithinFaults(rr)
         /\ faults' = faults + NetCount(rr)
         /\ db' = wr.rows
         /\ flights' = [ flights EXCEPT ![i] =
                IF wr.ok THEN [ @ EXCEPT !.pc = "fetchMine" ] ELSE Caught(@) ]
    /\ UNCHANGED <<nextId, missing, user, tasksMine, tasksAll, date, viewMode,
                   memberFilter, draggingId, last>>
    /\ UNCHANGED <<userId, savingKind, loading, refreshIndex, inserts, loads>>
    /\ UNCHANGED <<calcVars, edVars, loginVars, calendarVars, ledgerVars, callVars>>

\* await cloudFetchMine(user.id) returns what the table holds when the
\* request is served, or throws; on return cloudFetchAll is sent
fetchedMine(i) ==
    /\ flights[i].pc = "fetchMine"
    /\ \E r \in {"ok", "net"} :
         /\ WithinFaults(<<r>>)
         /\ faults' = faults + NetCount(<<r>>)
         /\ flights' = [ flights EXCEPT ![i] =
                IF r = "ok"
                THEN [ @ EXCEPT !.pc = "fetchAll",
                                !.mine = cloudFetchMine(db, flights[i].ownerId) ]
                ELSE Caught(@) ]
    /\ UNCHANGED <<db, nextId, missing, user, tasksMine, tasksAll, date, viewMode,
                   memberFilter, draggingId, last>>
    /\ UNCHANGED <<userId, savingKind, loading, refreshIndex, inserts, loads>>
    /\ UNCHANGED <<calcVars, edVars, loginVars, calendarVars, ledgerVars, callVars>>

\* cloudFetchAll() is served: its answer is on its way to the client
fetchedAll(i) ==
    /\ flights[i].pc = "fetchAll"
    /\ \E r \in {"ok", "net"} :
         /\ WithinFaults(<<r>>)
         /\ faults' = faults + NetCount(<<r>>)
         /\ flights' = [ flights EXCEPT ![i] =
                IF r = "ok"
                THEN [ @ EXCEPT !.pc = "resolve", !.all = cloudFetchAll(db) ]
                ELSE Caught(@) ]
    /\ UNCHANGED <<db, nextId, missing, user, tasksMine, tasksAll, date, viewMode,
                   memberFilter, draggingId, last>>
    /\ UNCHANGED <<userId, savingKind, loading, refreshIndex, inserts, loads>>
    /\ UNCHANGED <<calcVars, edVars, loginVars, calendarVars, ledgerVars, callVars>>

\* the settle that drops the result of a call when a call started later has
\* already set the lists
updateSettled_NewestOnly(i) ==
    /\ flights[i].pc = "resolve"
    /\ flights' = [ flights EXCEPT ![i].pc = "done" ]
    /\ IF \E j \in (i + 1)..Len(flights) :
            flights[j].pc = "done" /\ flights[j].alerts = NoAlerts
       THEN UNCHANGED <<tasksMine, tasksAll>>
       ELSE tasksMine' = flights[i].mine /\ tasksAll' = flights[i].all
    /\ UNCHANGED <<db, nextId, missing, user, date, viewMode, memberFilter,
                   draggingId, faults, last>>
    /\ UNCHANGED <<userId, savingKind, loading, refreshIndex, inserts, loads>>
    /\ UNCHANGED <<calcVars, edVars, loginVars, calendarVars, ledgerVars, callVars>>

\* await cloudFetchAll() returns: setTasksMine(mine); setTasksAll(all)
updateSettled(i) ==
    /\ flights[i].pc = "resolve"
    /\ flights' = [ flights EXCEPT ![i].pc = "done" ]
    /\ tasksMine' = flights[i].mine
    /\ tasksAll' = flights[i].all
    /\ UNCHANGED <<db, nextId, missing, user, date, viewMode, memberFilter,
                   draggingId, faults, last>>
    /\ UNCHANGED <<userId, savingKind, loading, refreshIndex, inserts, loads>>
    /\ UNCHANGED <<calcVars, edVars, loginVars, calendarVars, ledgerVars, callVars>>

---------------------------------------------------------------------------
(* Session, initial load and filters *)

\* CloudLogin: error === null
NoError == "none"

\* sign-in attempts of one run
MaxSignIns == 2

\* the sign-in that sends its request whatever the configuration
signInWithGoogle_NoReadyCheck ==
    /\ user = NoUser /\ ~loginLoading
    /\ authRequests < MaxSignIns
    /\ authRequests' = authRequests + 1
    /\ \E r \in {"ok", "net"} :
         IF r = "ok" THEN loginError' = NoError /\ loginLoading' = TRUE
         ELSE loginError' = "oauth" /\ loginLoading' = FALSE
    /\ UNCHANGED <<SUPABASE_READY>>
    /\ UNCHANGED <<asyncVars, calcVars, edVars, storeVars, calendarVars, ledgerVars, callVars>>

\* signInWithGoogle (the button is disabled while loading): without the
\* configuration the thrown error is caught and shown inline; with it,
\* signInWithOAuth is sent and either redirects (loading stays set) or
\* answers an error, shown inline
signInWithGoogle ==
    /\ user = NoUser /\ ~loginLoading
    /\ IF ~SUPABASE_READY
       THEN /\ loginError' = "unconfigured" /\ loginLoading' = FALSE
            /\ UNCHANGED authRequests
       ELSE /\ authRequests < MaxSignIns
            /\ authRequests' = authRequests + 1
            /\ \E r \in {"ok", "net"} :
                 IF r = "ok" THEN loginError' = NoError /\ loginLoading' = TRUE
                 ELSE loginError' = "oauth" /\ loginLoading' = FALSE
    /\ UNCHANGED <<SUPABASE_READY>>
    /\ UNCHANGED <<asyncVars, calcVars, edVars, storeVars, calendarVars, ledgerVars, callVars>>

\* what App renders: CloudLogin without a user, the task view with one
screen == IF user = NoUser THEN "login" ELSE "tasks"

\* the notice of CloudLogin asking for the configuration
notice == screen = "login" /\ ~SUPABASE_READY

\* onAuthStateChange with a session (or getSession at mount): setUser(u),
\* then the load effect on [user?.id]: both lists are set, or the error is
\* logged
signedIn(u) ==
    /\ SUPABASE_READY
    /\ user = NoUser
    /\ user' = u
    /\ loginError' = NoError /\ loginLoading' = FALSE
    /\ \E ff \in FetchAnswers :
         /\ WithinFaults(ff)
         /\ Settle("load", NoId, NoDrag,
                   [ok |-> TRUE, rows |-> db, requests |-> 0, most |-> 0],
                   Refetch(db, u.id, ff), ff, "none", "off")
    /\ UNCHANGED <<nextId, missing, date, viewMode, memberFilter, draggingId>>
    /\ UNCHANGED <<asyncVars, calcVars, edVars, calendarVars, ledgerVars, callVars,
                   SUPABASE_READY, authRequests>>

\* logout: signOut, then onAuthStateChange without a session: setUser(null)
logout ==
    /\ user # NoUser
    /\ user' = NoUser
    /\ last' = LastNone
    /\ UNCHANGED <<db, nextId, missing, tasksMine, tasksAll, date, viewMode,
                   memberFilter, draggingId, faults>>
    /\ UNCHANGED <<asyncVars, calcVars, edVars, loginVars, calendarVars, ledgerVars, callVars>>

\* setDate
setDate(d) ==
    /\ user # NoUser
    /\ d # date
    /\ date' = d
    /\ last' = LastNone
    /\ UNCHANGED <<db, nextId, missing, user, tasksMine, tasksAll, viewMode,
                   memberFilter, draggingId, faults>>
    /\ UNCHANGED <<asyncVars, calcVars, edVars, loginVars, calendarVars, ledgerVars, callVars>>

\* setViewMode
setViewMode(m) ==
    /\ user # NoUser
    /\ m # viewMode
    /\ viewMode' = m
    /\ last' = LastNone
    /\ UNCHANGED <<db, nextId, missing, user, tasksMine, tasksAll, date,
                   memberFilter, draggingId, faults>>
    /\ UNCHANGED <<asyncVars, calcVars, edVars, loginVars, calendarVars, ledgerVars, callVars>>

\* setMemberFilter: the select is shown in the "all" view
setMemberFilter(f) ==
    /\ user # NoUser
    /\ viewMode = "all"
    /\ f \in membersFilterList
    /\ f # memberFilter
    /\ memberFilter' = f
    /\ last' = LastNone
    /\ UNCHANGED <<db, nextId, missing, user, tasksMine, tasksAll, date, viewMode,
                   draggingId, faults>>
    /\ UNCHANGED <<asyncVars, calcVars, edVars, loginVars, calendarVars, ledgerVars, callVars>>

---------------------------------------------------------------------------
(* Google Calendar event *)

\* an Invalid Date (its time value is NaN)
InvalidDate == NullNum

\* new Date(`${date}T${time}:00`), in minutes since the day's midnight: the
\* date-time form needs HH:mm with HH up to 24 (24:00 alone) and mm up to 59
DateOf(time) ==
    IF ~(/\ Len(time) = 5 /\ time[3] = ":"
         /\ \A i \in {1, 2, 4, 5} : IsDigit(time[i]))
    THEN InvalidDate
    ELSE LET h  == parseInt(SubSeq(time, 1, 2))
             mm == parseInt(SubSeq(time, 4, 5))
         IN  IF h > 24 \/ mm > 59 \/ (h = 24 /\ mm # 0) THEN InvalidDate
             ELSE h * 60 + mm

\* the start of the event: startTime, or 09:00 without one
EventStart(startTime) ==
    IF startTime # NullStr /\ startTime # <<>> THEN DateOf(startTime) ELSE 9 * 60

\* the end as first computed: endTime, or one hour after the start
EventEnd(startTime, endTime) ==
    IF endTime # NullStr /\ endTime # <<>> THEN DateOf(endTime)
    ELSE IF EventStart(startTime) = InvalidDate THEN InvalidDate
    ELSE EventStart(startTime) + 60

\* the event that keeps an end that is not later than its start
createGoogleCalendarEvent_KeepsEnd(startTime, endTime, token, resOk) ==
    LET start == EventStart(startTime)
        end   == EventEnd(startTime, endTime)
    IN  [ kind |-> "built", startTime |-> startTime, endTime |-> endTime,
          start |-> start, end |-> end,
          submitted |-> token /\ start # InvalidDate /\ end # InvalidDate,
          thrown |-> ~token \/ start = InvalidDate \/ end = InvalidDate \/ ~resOk ]

\* createGoogleCalendarEvent, the session having a provider token or not and
\* the calendar answering ok or not: the start and end of the event, whether
\* the request was sent (toISOString throws on an Invalid Date) and whether
\* the call threw; a comparison with an Invalid Date is false
createGoogleCalendarEvent(startTime, endTime, token, resOk) ==
    LET start == EventStart(startTime)
        end0  == EventEnd(startTime, endTime)
        end   == IF start # InvalidDate /\ end0 # InvalidDate /\ end0 <= start
                 THEN start + 60 ELSE end0
    IN  [ kind |-> "built", startTime |-> startTime, endTime |-> endTime,
          start |-> start, end |-> end,
          submitted |-> token /\ start # InvalidDate /\ end # InvalidDate,
          thrown |-> ~token \/ start = InvalidDate \/ end = InvalidDate \/ ~resOk ]

EventIdle == [ kind |-> "idle", startTime |-> NullStr, endTime |-> NullStr,
               start |-> InvalidDate, end |-> InvalidDate,
               submitted |-> FALSE, thrown |-> FALSE ]

\* the times a task can carry: those of the form's selects, none (null or
\* the empty string) and one that is no time
TaskTimes ==
    { TimeStr(h, m) : h \in H_OPTIONS, m \in M_OPTIONS }
        \cup { NullStr, <<>>, <<"a", "b", ":", "c", "d">> }

\* the calendar call of addTask for a task with these times
CalendarCall(startTime, endTime, token, resOk) ==
    /\ event.kind = "idle"
    /\ event' = createGoogleCalendarEvent(startTime, endTime, token, resOk)
    /\ UNCHANGED <<asyncVars, calcVars, edVars, storeVars, loginVars, ledgerVars, callVars>>

\* the next call
CalendarReset ==
    /\ event.kind # "idle"
    /\ event' = EventIdle
    /\ UNCHANGED <<asyncVars, calcVars, edVars, storeVars, loginVars, ledgerVars, callVars>>

NextCalendar ==
    \/ /\ event.kind = "idle"
       /\ \E startTime \in TaskTimes, endTime \in TaskTimes,
             token \in BOOLEAN, resOk \in BOOLEAN :
             CalendarCall(startTime, endTime, token, resOk)
    \/ CalendarReset

---------------------------------------------------------------------------
(* Performance ledger (features/performance/PerformanceManagement.tsx) *)

\* check (kind in ('revenue', 'cost'))
PerformanceKind == {"revenue", "cost"}

\* userId: string | null | undefined
NoUserId == ""

\* savingKind: PerformanceKind | null
NoKind == "none"

\* the rows of one run
MaxEntries == 3

\* amounts of stored rows (numeric, not null), in yen
StoredAmounts == {-50, 100, 250}

\* a stored row: the table's constraints hold
PerformanceRow(kind, amount) ==
    [ owner_id |-> "u1", kind |-> kind, subject |-> <<"s">>, amount |-> amount,
      occurred_on |-> "d1" ]

\* the tables the session may find
PerformanceTables ==
    UNION { { [ i \in 1..n |-> PerformanceRow(k[i], a[i]) ] :
                k \in [1..n -> PerformanceKind], a \in [1..n -> StoredAmounts] } :
            n \in 1..(MaxEntries - 1) }

\* toRecord
toRecord(row) ==
    [ ownerId |-> row.owner_id, kind |-> row.kind, subject |-> row.subject,
      amount |-> row.amount, occurredOn |-> row.occurred_on ]

\* the sum of the amounts of the records of the kinds in K
RECURSIVE SumRecordAmounts(_, _)
SumRecordAmounts(recs, K) ==
    IF recs = <<>> THEN 0
    ELSE (IF Head(recs).kind \in K THEN Head(recs).amount ELSE 0)
             + SumRecordAmounts(Tail(recs), K)

\* the totals that count every record as revenue
performanceTotals_AllRevenue(recs) ==
    [ revenue |-> SumRecordAmounts(recs, PerformanceKind), cost |-> 0 ]

\* totals: records.reduce over { revenue: 0, cost: 0 }
RECURSIVE performanceTotals(_)
performanceTotals(recs) ==
    IF recs = <<>> THEN [revenue |-> 0, cost |-> 0]
    ELSE LET acc == performanceTotals(SubSeq(recs, 1, Len(recs) - 1))
             cur == recs[Len(recs)]
         IN  [ revenue |-> IF cur.kind = "revenue" THEN acc.revenue + cur.amount
                           ELSE acc.revenue,
               cost |-> IF cur.kind = "cost" THEN acc.cost + cur.amount
                        ELSE acc.cost ]

\* select("*").eq("owner_id", userId), the backend answering r
fetchRecords(rows, owner, r) ==
    IF r = "ok"
    THEN [ i \in 1..Len(FilterSeq(rows, { x \in Elems(rows) : x.owner_id = owner })) |->
             toRecord(FilterSeq(rows, { x \in Elems(rows) : x.owner_id = owner })[i]) ]
    ELSE <<>>

\* rows written by earlier sessions
entriesHold(rows) ==
    /\ perfDb = <<>> /\ records = <<>>
    /\ perfDb' = rows
    /\ UNCHANGED <<records, perfError>>
    /\ UNCHANGED <<asyncVars, calcVars, edVars, storeVars, loginVars, calendarVars, callVars>>

\* the load effect on [supabase, userId, refreshIndex], the component having
\* a userId or not
loadRecords(hasUser, r) ==
    /\ IF ~SUPABASE_READY \/ ~hasUser
       THEN records' = <<>> /\ UNCHANGED perfError
       ELSE /\ records' = fetchRecords(perfDb, "u1", r)
            /\ perfError' = IF r = "ok" THEN NoError ELSE "fetch"
    /\ UNCHANGED perfDb
    /\ UNCHANGED <<asyncVars, calcVars, edVars, storeVars, loginVars, calendarVars, callVars>>

\* Number(form.amount) of the amounts typed: not a number, zero, positive
FormAmounts == {NullNum, 0, 100}

\* handleSubmit(kind) with the form holding subject and amount; the insert is
\* answered r and, refreshIndex having changed, the load effect's fetch rLoad
handleSubmit(kind, subject, amount, hasUser, r, rLoad) ==
    /\ IF ~SUPABASE_READY THEN perfError' = "config" /\ UNCHANGED <<perfDb, records>>
       ELSE IF ~hasUser THEN perfError' = "user" /\ UNCHANGED <<perfDb, records>>
       ELSE IF trim(subject) = <<>>
       THEN perfError' = "subject" /\ UNCHANGED <<perfDb, records>>
       ELSE IF amount = NullNum \/ amount <= 0
       THEN perfError' = "amount" /\ UNCHANGED <<perfDb, records>>
       ELSE IF r # "ok" THEN perfError' = "insert" /\ UNCHANGED <<perfDb, records>>
       ELSE /\ Len(perfDb) < MaxEntries
            /\ perfDb' = Append(perfDb,
                   [PerformanceRow(kind, amount) EXCEPT !.subject = trim(subject)])
            /\ records' = fetchRecords(perfDb', "u1", rLoad)
            /\ perfError' = IF rLoad = "ok" THEN NoError ELSE "fetch"
    /\ UNCHANGED <<asyncVars, calcVars, edVars, storeVars, loginVars, calendarVars, callVars>>

---------------------------------------------------------------------------
(* Performance ledger, await by await: the runs of the load effect and the *)
(* inserts of handleSubmit with their answers on the way                   *)

\* runs of the load effect followed in one behaviour
MaxLoads == 2

\* handleSubmit calls that reach their insert, followed in one behaviour
MaxInserts == 2

\* the users the component is rendered for
LedgerUsers == {"u1", "u2"}

\* the effect's cleanup: mounted = false in the closure of the run before
\* (applied: the run's answer has set the records)
Cleanup(ls) == [ i \in 1..Len(ls) |-> [ ls[i] EXCEPT !.mounted = FALSE ] ]

\* the load effect's body for the userId u, after the cleanup of the run
\* before: without a client or a user the records are emptied, otherwise
\* loading and error are set and the select is sent
EffectRuns(u) ==
    IF ~SUPABASE_READY \/ u = NoUserId
    THEN /\ records' = <<>>
         /\ loads' = Cleanup(loads)
         /\ UNCHANGED <<loading, perfError>>
    ELSE /\ Len(loads) < MaxLoads
         /\ loads' = Append(Cleanup(loads),
                [ mounted |-> TRUE, owner |-> u, pc |-> "sent", failed |-> FALSE,
                  data |-> <<>>, applied |-> FALSE ])
         /\ loading' = TRUE
         /\ perfError' = NoError
         /\ UNCHANGED records

\* the parent renders the component with another userId: the effect on
\* [supabase, userId, refreshIndex] runs again
userIdChanges(u) ==
    /\ u # userId
    /\ userId' = u
    /\ EffectRuns(u)
    /\ UNCHANGED <<perfDb, savingKind, refreshIndex, inserts, flights>>
    /\ UNCHANGED <<calcVars, edVars, storeVars, loginVars, calendarVars, callVars>>

\* the backend serves the select of run i
loadServed(i) ==
    /\ loads[i].pc = "sent"
    /\ \E r \in {"ok", "net"} :
         loads' = [ loads EXCEPT ![i] =
             [ @ EXCEPT !.pc = "answered", !.failed = (r # "ok"),
                        !.data = fetchRecords(perfDb, loads[i].owner, r) ] ]
    /\ UNCHANGED <<perfDb, records, perfError>>
    /\ UNCHANGED <<userId, savingKind, loading, refreshIndex, inserts, flights>>
    /\ UNCHANGED <<calcVars, edVars, storeVars, loginVars, calendarVars, callVars>>

\* the then of a run that sets the records whether its run is still mounted
\* or not
loadReturned_NoMountedCheck(i) ==
    /\ loads[i].pc = "answered"
    /\ loads' = [ loads EXCEPT ![i].pc = "done", ![i].applied = TRUE ]
    /\ records' = IF loads[i].failed THEN <<>> ELSE loads[i].data
    /\ perfError' = IF loads[i].failed THEN "fetch" ELSE perfError
    /\ loading' = FALSE
    /\ UNCHANGED <<perfDb, userId, savingKind, refreshIndex, inserts, flights>>
    /\ UNCHANGED <<calcVars, edVars, storeVars, loginVars, calendarVars, callVars>>

\* the answer of run i arrives: then and finally, both behind `mounted`
loadReturned(i) ==
    /\ loads[i].pc = "answered"
    /\ loads' = [ loads EXCEPT ![i].pc = "done", ![i].applied = loads[i].mounted ]
    /\ IF ~loads[i].mounted
       THEN UNCHANGED <<records, perfError, loading>>
       ELSE /\ records' = IF loads[i].failed THEN <<>> ELSE loads[i].data
            /\ perfError' = IF loads[i].failed THEN "fetch" ELSE perfError
            /\ loading' = FALSE
    /\ UNCHANGED <<perfDb, userId, savingKind, refreshIndex, inserts, flights>>
    /\ UNCHANGED <<calcVars, edVars, storeVars, loginVars, calendarVars, callVars>>

\* handleSubmit(kind) up to its await: the checks, then setSavingKind(kind),
\* setError(null) and the insert is sent
submitCalled(kind, subject, amount) ==
    /\ IF ~SUPABASE_READY
       THEN perfError' = "config" /\ UNCHANGED <<savingKind, inserts>>
       ELSE IF userId = NoUserId
       THEN perfError' = "user" /\ UNCHANGED <<savingKind, inserts>>
       ELSE IF trim(subject) = <<>>
       THEN perfError' = "subject" /\ UNCHANGED <<savingKind, inserts>>
       ELSE IF amount = NullNum \/ amount <= 0
       THEN perfError' = "amount" /\ UNCHANGED <<savingKind, inserts>>
       ELSE /\ Len(inserts) < MaxInserts
            /\ savingKind' = kind
            /\ perfError' = NoError
            /\ inserts' = Append(inserts,
                   [ kind |-> kind, pc |-> "sent", failed |-> FALSE,
                     row |-> [ PerformanceRow(kind, amount) EXCEPT
                                 !.owner_id = userId, !.subject = trim(subject) ] ])
    /\ UNCHANGED <<perfDb, records, userId, loading, refreshIndex, loads, flights>>
    /\ UNCHANGED <<calcVars, edVars, storeVars, loginVars, calendarVars, callVars>>

\* the backend serves the insert of call i
insertServed(i) ==
    /\ inserts[i].pc = "sent"
    /\ \E r \in {"ok", "net"} :
         /\ inserts' = [ inserts EXCEPT ![i] =
                [ @ EXCEPT !.pc = "answered", !.failed = (r # "ok") ] ]
         /\ perfDb' = IF r = "ok" THEN Append(perfDb, inserts[i].row) ELSE perfDb
    /\ UNCHANGED <<records, perfError>>
    /\ UNCHANGED <<userId, savingKind, loading, refreshIndex, loads, flights>>
    /\ UNCHANGED <<calcVars, edVars, storeVars, loginVars, calendarVars, callVars>>

\* the insert of call i returns: on an error the catch sets the error; on
\* success resetForm and setRefreshIndex(v + 1), which runs the load effect
\* again; finally setSavingKind(null)
insertReturned(i) ==
    /\ inserts[i].pc = "answered"
    /\ inserts' = [ inserts EXCEPT ![i].pc = "done" ]
    /\ savingKind' = NoKind
    /\ IF inserts[i].failed
       THEN /\ perfError' = "insert"
            /\ UNCHANGED <<records, loading, refreshIndex, loads>>
       ELSE /\ refreshIndex' = refreshIndex + 1
            /\ EffectRuns(userId)
    /\ UNCHANGED <<perfDb, userId, flights>>
    /\ UNCHANGED <<calcVars, edVars, storeVars, loginVars, calendarVars, callVars>>

---------------------------------------------------------------------------
(* The cloud calls on their own, against a table lacking any of the       *)
(* optional columns                                                       *)

\* the answers of a table lacking the columns `lacking` to a request that
\* carries the optional columns cols: a failure that is not about a column,
\* or the report of one lacking column it carries, or ok when it carries none
Answers(lacking, cols) ==
    {"net"} \cup (IF cols \cap lacking = {} THEN {"ok"} ELSE cols \cap lacking)

\* the task of the insert calls
CallTask ==
    [ name |-> <<"t">>, category |-> CATEGORIES[1], plannedHours |-> 900,
      actualHours |-> 0, status |-> STATUS[1], date |-> "d1", createdAt |-> 1,
      member |-> <<"A">>, ownerId |-> "u1", retrospective |-> <<"r">>,
      startTime |-> TimeStr(9, 0), endTime |-> TimeStr(18, 0),
      doneCondition |-> <<"c">>, sortOrder |-> 10 ]

\* the row the update calls are for: stored by an older version, without
\* the optional columns
CallRows == << InsertedRow(CallTask, "u1", {}, 1) >>

\* the patches of the update calls: those of the row editors and of
\* handleDrop, and one with several keys
CallPatches ==
    { [actualHours |-> 150], [status |-> STATUS[3]], [retrospective |-> <<"x">>],
      [doneCondition |-> <<"y">>], [sortOrder |-> 20],
      [retrospective |-> <<"x">>, doneCondition |-> <<"y">>, actualHours |-> 150] }

CallIdle == [ fn |-> "none", lacking |-> {}, patch |-> <<>>, first |-> "none",
              second |-> "none", ok |-> FALSE, requests |-> 0, sent |-> <<>>,
              rows |-> <<>> ]

\* cloudInsertTask(CallTask) on an empty table lacking the columns `lacking`
InsertCall(lacking, r1, r2) ==
    /\ call.fn = "none"
    /\ r1 \in Answers(lacking, OptionalCols)
    /\ r2 \in (IF r1 = "ok" THEN {"ok"} ELSE Answers(lacking, InsertRetryCols(r1)))
    /\ \E res \in {cloudInsertTask(<<>>, CallTask, "u1", 1, r1, r2)} :
         call' = [ fn |-> "insert", lacking |-> lacking, patch |-> <<>>,
                   first |-> r1,
                   second |-> IF res.requests = 2 THEN r2 ELSE "none",
                   ok |-> res.ok, requests |-> res.requests, sent |-> res.sent,
                   rows |-> res.rows ]
    /\ UNCHANGED <<asyncVars, calcVars, edVars, storeVars, loginVars, calendarVars, ledgerVars>>

\* cloudUpdateTask(1, "u1", patch) on CallRows, the table lacking `lacking`
UpdateCall(lacking, patch, r1, r2) ==
    /\ call.fn = "none"
    /\ r1 \in Answers(lacking, PatchCols(patch))
    /\ r2 \in (IF r1 # "ok" /\ needRetry(patch, r1)
               THEN Answers(lacking, PatchCols(StripPatch(patch, r1))) ELSE {"ok"})
    /\ \E res \in {cloudUpdateTask(CallRows, 1, "u1", patch, r1, r2)} :
         call' = [ fn |-> "update", lacking |-> lacking, patch |-> patch,
                   first |-> r1,
                   second |-> IF res.requests = 2 THEN r2 ELSE "none",
                   ok |-> res.ok, requests |-> res.requests, sent |-> res.sent,
                   rows |-> res.rows ]
    /\ UNCHANGED <<asyncVars, calcVars, edVars, storeVars, loginVars, calendarVars, ledgerVars>>

\* the next call
CallReset ==
    /\ call.fn # "none"
    /\ call' = CallIdle
    /\ UNCHANGED <<asyncVars, calcVars, edVars, storeVars, loginVars, calendarVars, ledgerVars>>

NextCall ==
    \/ /\ call.fn = "none"
       /\ \E lacking \in SUBSET OptionalCols, r1 \in Responses, r2 \in Responses :
             InsertCall(lacking, r1, r2)
    \/ /\ call.fn = "none"
       /\ \E lacking \in SUBSET OptionalCols, patch \in CallPatches,
             r1 \in Responses, r2 \in Responses :
             UpdateCall(lacking, patch, r1, r2)
    \/ CallReset

---------------------------------------------------------------------------
(* Specifications *)

Init ==
    /\ calc = CalcIdle
    /\ edInitial = <<>> /\ edText = <<>> /\ edComposing = FALSE
    /\ edTimer = NoTimer /\ edFocused = FALSE /\ edSaves = 0 /\ edLastSave = NoSave
    /\ edCommit = NoCommit
    /\ db = <<>> /\ nextId = 1
    /\ missing \in SchemaChoices
    /\ user = NoUser
    /\ tasksMine = <<>> /\ tasksAll = <<>>
    /\ date = "d1" /\ viewMode = "mine" /\ memberFilter = AllMembers
    /\ draggingId = NoId
    /\ faults = 0
    /\ last = LastNone
    /\ SUPABASE_READY \in BOOLEAN
    /\ loginError = NoError /\ loginLoading = FALSE /\ authRequests = 0
    /\ event = EventIdle
    /\ perfDb = <<>> /\ records = <<>> /\ perfError = NoError
    /\ call = CallIdle
    /\ flights = <<>>
    /\ userId = NoUserId /\ savingKind = NoKind /\ loading = FALSE
    /\ refreshIndex = 0 /\ inserts = <<>> /\ loads = <<>>

\* the add form's inputs: names (one blank), members (one with a leading
\* space) and the time selects
NameInputs == { <<"t">>, <<" ">> }

MemberInputs == { <<"A">>, <<" ", "A">>, <<"B">> }

\* members with the times of their tasks
FormInputs == { << <<"A">>, <<9, 0, 18, 0>> >>, << <<"B">>, <<9, 0, 10, 15>> >> }

\* the patches the row editors send: the actual-hours input and the
\* retrospective cell
RowPatches == { [actualHours |-> 150], [retrospective |-> <<"r">>] }

\* the tasks added in the specifications that are not about the order in
\* a group
MaxRows == 2

\* the writes of one user's session: every handler that writes, with the
\* calendar checkbox and the retrospective cell
NextStore ==
    \/ \E u \in Users : signedIn(u)
    \/ \E name \in NameInputs, cal \in BOOLEAN :
          nextId <= MaxRows /\ addTask(name, <<"A">>, <<9, 0, 18, 0>>, cal)
    \/ \E row \in Elems(tasksForDay), patch \in RowPatches :
          canEditTask(row) /\ updateTask(row.id, patch)
    \/ \E row \in Elems(tasksForDay) : canEditTask(row) /\ deleteTask(row.id)
    \/ \E row \in Elems(tasksForDay) : handleDragStart(row)
    \/ \E row \in Elems(tasksForDay) : handleDrop(row)

\* two users taking turns, in both views; updateTask and deleteTask are
\* called for every row the view shows, also for the rows of another owner,
\* whose controls the view does not offer
NextOwner ==
    \/ \E u \in Users : signedIn(u)
    \/ logout
    \/ \E m \in {"mine", "all"} : setViewMode(m)
    \/ nextId <= MaxRows /\ addTask(<<"t">>, <<"A">>, <<9, 0, 18, 0>>, FALSE)
    \/ \E row \in Elems(tasksForDay) : updateTask(row.id, [actualHours |-> 150])
    \/ \E row \in Elems(tasksForDay) : deleteTask(row.id)
    \/ \E row \in Elems(tasksForDay) : handleDragStart(row)
    \/ \E row \in Elems(tasksForDay) : handleDrop(row)

\* one user adding, deleting and reordering over several days and members
NextOrder ==
    \/ signedIn(CHOOSE u \in Users : u.id = "u1")
    \/ \E d \in Dates : setDate(d)
    \/ \E member \in MemberInputs : addTask(<<"t">>, member, <<9, 0, 18, 0>>, FALSE)
    \/ \E row \in Elems(tasksForDay) : canEditTask(row) /\ deleteTask(row.id)
    \/ \E row \in Elems(tasksForDay) : handleDragStart(row)
    \/ \E row \in Elems(tasksForDay) : handleDrop(row)

\* the view: days, scopes and member filter over tasks of several members
\* and durations
NextView ==
    \/ \E u \in Users : signedIn(u)
    \/ logout
    \/ \E d \in Dates : setDate(d)
    \/ \E m \in {"mine", "all"} : setViewMode(m)
    \/ \E f \in membersFilterList : setMemberFilter(f)
    \/ \E form \in FormInputs :
          nextId <= MaxRows /\ addTask(<<"t">>, form[1], form[2], FALSE)
    \/ \E row \in Elems(tasksForDay) :
          canEditTask(row) /\ updateTask(row.id, [actualHours |-> 150])

\* the row editors with one that rewrites the planned duration
RowEditors_WithPlanned ==
    { [actualHours |-> 150], [status |-> "done"],
      [doneCondition |-> <<"c">>], [retrospective |-> <<"r">>],
      [plannedHours |-> 150] }

\* the patches of the four row editors: the actual-hours input, the status
\* select, the completion-criteria cell and the retrospective cell
RowEditors ==
    { [actualHours |-> 150], [status |-> "done"],
      [doneCondition |-> <<"c">>], [retrospective |-> <<"r">>] }

\* one user's rows under every editor of the row, deletion and reordering
NextFrame ==
    \/ signedIn(CHOOSE u \in Users : u.id = "u1")
    \/ nextId <= MaxRows /\ addTask(<<"t">>, <<"A">>, <<9, 0, 10, 15>>, FALSE)
    \/ \E row \in Elems(tasksForDay), patch \in RowEditors :
          canEditTask(row) /\ updateTask(row.id, patch)
    \/ \E row \in Elems(tasksForDay) : canEditTask(row) /\ deleteTask(row.id)
    \/ \E row \in Elems(tasksForDay) : handleDragStart(row)
    \/ \E row \in Elems(tasksForDay) : handleDrop(row)

SpecFrame == Init /\ [][NextFrame]_vars

\* the rows other sessions and older versions of the app left in the table
MaxSeed == 3

\* a row as stored: sort_order null in rows older than the column, member
\* empty in rows written without one
SeedRow(id, member, key, createdAt) ==
    [ id |-> id, owner_id |-> "u1", member |-> member, name |-> <<"t">>,
      category |-> CATEGORIES[1], planned_hours |-> 100, actual_hours |-> 0,
      status |-> STATUS[1], date |-> "d1", created_at |-> createdAt,
      retrospective |-> NullStr, start_time |-> NullStr, end_time |-> NullStr,
      done_condition |-> NullStr, sort_order |-> key ]

SeedTables ==
    UNION { { [ i \in 1..n |-> SeedRow(i, m[i], k[i], c[i]) ] :
                m \in [1..n -> {<<"A">>, <<"B">>, <<>>}],
                k \in [1..n -> {NullNum, 10, 20}],
                c \in [1..n -> {1, 2}] } : n \in 1..MaxSeed }

\* the table as the session finds it
tableHolds(rows) ==
    /\ user = NoUser /\ db = <<>> /\ nextId = 1
    /\ db' = rows
    /\ nextId' = Len(rows) + 1
    /\ last' = LastNone
    /\ UNCHANGED <<missing, user, tasksMine, tasksAll, date, viewMode, memberFilter,
                   draggingId, faults>>
    /\ UNCHANGED <<asyncVars, calcVars, edVars, loginVars, calendarVars, ledgerVars, callVars>>

\* the display of a table of any content
NextGroup ==
    \/ db = <<>> /\ \E rows \in SeedTables : tableHolds(rows)
    \/ signedIn(CHOOSE u \in Users : u.id = "u1")
    \/ \E m \in {"mine", "all"} : setViewMode(m)
    \/ \E f \in membersFilterList : setMemberFilter(f)

SpecGroup == Init /\ [][NextGroup]_vars

\* the login view and a session: sign-in attempts, sessions, logout, adds
\* with and without the calendar, deletes
NextLogin ==
    \/ signInWithGoogle
    \/ \E u \in Users : signedIn(u)
    \/ logout
    \/ \E cal \in BOOLEAN :
          nextId <= MaxRows /\ addTask(<<"t">>, <<"A">>, <<9, 0, 18, 0>>, cal)
    \/ \E row \in Elems(tasksForDay) : canEditTask(row) /\ deleteTask(row.id)

SpecLogin == Init /\ [][NextLogin]_vars

\* the ledger: tables of earlier sessions, loads and submissions
NextLedger ==
    \/ perfDb = <<>> /\ \E rows \in PerformanceTables : entriesHold(rows)
    \/ \E hasUser \in BOOLEAN, r \in {"ok", "net"} : loadRecords(hasUser, r)
    \/ \E kind \in PerformanceKind, subject \in NameInputs, amount \in FormAmounts,
          hasUser \in BOOLEAN, r \in {"ok", "net"}, rLoad \in {"ok", "net"} :
          handleSubmit(kind, subject, amount, hasUser, r, rLoad)

\* one user editing the rows of a task faster than the backend answers
NextRace ==
    \/ signedIn(CHOOSE u \in Users : u.id = "u1")
    \/ \E name \in NameInputs :
          nextId <= 1 /\ flights = <<>> /\ addTask(name, <<"A">>, <<9, 0, 18, 0>>, FALSE)
    \/ \E row \in Elems(tasksForDay), patch \in FlightPatches :
          canEditTask(row) /\ updateTaskCalled(row.id, patch)
    \/ \E i \in 1..Len(flights) : updateWritten(i)
    \/ \E i \in 1..Len(flights) : fetchedMine(i)
    \/ \E i \in 1..Len(flights) : fetchedAll(i)
    \/ \E i \in 1..Len(flights) : updateSettled(i)

SpecRace == Init /\ [][NextRace]_vars

\* two users taking turns in both views, dragging their rows of two members
\* and dropping them on every row shown
NextDrop ==
    \/ \E u \in Users : signedIn(u)
    \/ logout
    \/ \E m \in {"mine", "all"} : setViewMode(m)
    \/ \E member \in { <<"A">>, <<"B">> } :
          addTask(<<"t">>, member, <<9, 0, 18, 0>>, FALSE)
    \/ \E row \in Elems(tasksForDay) : handleDragStart(row)
    \/ \E row \in Elems(tasksForDay) : handleDrop(row)

SpecDrop == Init /\ [][NextDrop]_vars

\* the ledger of a user submitting both forms while answers are on the way;
\* a form's button is enabled unless savingKind is its kind
NextLedgerAsync ==
    \/ \E u \in LedgerUsers \cup {NoUserId} : userIdChanges(u)
    \/ \E i \in 1..Len(loads) : loadServed(i)
    \/ \E i \in 1..Len(loads) : loadReturned(i)
    \/ \E kind \in PerformanceKind, subject \in NameInputs, amount \in FormAmounts :
          /\ SUPABASE_READY /\ userId # NoUserId /\ savingKind # kind
          /\ submitCalled(kind, subject, amount)
    \/ \E i \in 1..Len(inserts) : insertServed(i)
    \/ \E i \in 1..Len(inserts) : insertReturned(i)

SpecLedgerAsync == Init /\ [][NextLedgerAsync]_vars

Spec == Init /\ [][NextStore]_vars

SpecOwner == Init /\ [][NextOwner]_vars

SpecOrder == Init /\ [][NextOrder]_vars

SpecView == Init /\ [][NextView]_vars

SpecCalc == Init /\ [][NextCalc]_vars

SpecEd == Init /\ [][NextEd]_vars

SpecCalendar == Init /\ [][NextCalendar]_vars

SpecLedger == Init /\ [][NextLedger]_vars

SpecCall == Init /\ [][NextCall]_vars

---------------------------------------------------------------------------
(* Claims on the duration calculator (under SpecCalc) *)

\* minutes since midnight of a form selection
FormStart == calc.sH * 60 + calc.sM

FormEnd == calc.eH * 60 + calc.eM

\* C4: for every pair of well-formed times (hour 0-23, minute 0/15/30/45)
\* with the end later than the start, diffHoursFromTimes returns
\* (end - start in minutes) / 60 rounded to two decimals: the hundredth
\* nearest to it, which for quarter-hour times is exact; 09:00 to 18:15
\* gives 9.25.
C4_DurationOfLaterEnd ==
    (calc.kind = "form" /\ FormEnd > FormStart) =>
        /\ 2 * (60 * calc.diff - 100 * (FormEnd - FormStart)) \in -59..60
        /\ 60 * calc.diff = 100 * (FormEnd - FormStart)
        /\ (calc.startTime = <<"0","9",":","0","0">>
              /\ calc.endTime = <<"1","8",":","1","5">>) => calc.diff = 925

C4_Witness ==
    /\ calc.kind = "form"
    /\ calc.sH = 9 /\ calc.sM = 0 /\ calc.eH = 18 /\ calc.eM = 15
    /\ calc.startTime = <<"0","9",":","0","0">>
    /\ calc.endTime = <<"1","8",":","1","5">>
    /\ calc.diff = 925

\* C5: for every pair of well-formed times with the end equal to or earlier
\* than the start, diffHoursFromTimes returns 0: not a negative value and
\* not the duration wrapped past midnight.
C5_ZeroWhenEndNotLater ==
    (calc.kind = "form" /\ FormEnd <= FormStart) => calc.diff = 0

C5_Witness ==
    /\ calc.kind = "form"
    /\ calc.startTime = <<"1","8",":","0","0">>
    /\ calc.endTime = <<"0","9",":","0","0">>
    /\ calc.diff = 0

\* C6: when the start or the end time is missing or malformed (hour above
\* 23, minute off the quarter, wrong pattern), diffHoursFromTimes returns
\* the unavailable value, as a value and not as an exception, and
\* displayPlanned shows the row's stored plannedHours.
C6_MalformedFallsBack ==
    (calc.kind = "row"
       /\ (calc.startTime \in MalformedTimes \/ calc.endTime \in MalformedTimes)) =>
        /\ calc.diff = NullNum
        /\ calc.shown = calc.plannedHours

C6_Witness ==
    /\ calc.kind = "row"
    /\ calc.startTime = <<"0","9",":","2","0">>
    /\ calc.endTime = <<"1","8",":","0","0">>
    /\ calc.plannedHours = 125
    /\ calc.diff = NullNum
    /\ calc.shown = 125

---------------------------------------------------------------------------
(* Claims on the editor cells (under SpecEd) *)

\* C8: onSave is never invoked while an input-method composition session
\* is open: no save has run with composing set, and while composing no
\* save timer is pending (the timer pending at composition start was
\* cancelled, edits during the composition scheduled nothing).
C8_NoSaveWhileComposing ==
    /\ edLastSave.composing = FALSE
    /\ edComposing => edTimer = NoTimer

\* a composition is open over typed text with the focus lost, after an
\* earlier save, and nothing is pending
C8_Witness ==
    /\ edComposing /\ ~edFocused
    /\ edText = <<"a", "b">>
    /\ edSaves = 1 /\ edLastSave.value = <<"a">>
    /\ edTimer = NoTimer

\* C21 (as stated): after a composition session ends, the committed text is
\* persisted by exactly one onSave call, triggered by the composition end
\* or by blur, whichever occurs first: until that call its save is pending,
\* and no second call follows while the text stays as committed.
C21_ExactlyOneSaveAfterComposition ==
    edCommit.ended =>
        /\ edCommit.saves <= 1
        /\ edCommit.saves = 0 => edTimer = edCommit.text

\* C21 (amended): after a composition session ends, the committed text is
\* pending in the debounce timer until the first onSave call; that call comes
\* from the timer or from blur, whichever occurs first, and cancels the
\* other; the timer's call carries the committed text, the blur's call the
\* cell's text, which is the committed text unless a refresh of the row
\* replaced it meanwhile.  The timer saves at most once; every later blur
\* calls onSave again.
C21_FirstSaveByTimerOrBlur ==
    edCommit.ended =>
        /\ edCommit.saves = 0 => edTimer = edCommit.text
        /\ edCommit.saves >= 1 =>
              /\ edTimer = NoTimer
              /\ edCommit.first \in {"timer", "blur"}
        /\ edCommit.timerSaves <= 1
        /\ edCommit.first = "timer" => edCommit.value = edCommit.text
        /\ (edCommit.first = "blur" /\ ~edCommit.refreshed) =>
              edCommit.value = edCommit.text

\* a composition ended on "a", the timer saved it and a blur saved it again
C21_Witness ==
    /\ edCommit.ended /\ edCommit.text = <<"a">>
    /\ edCommit.first = "timer" /\ edCommit.timerSaves = 1
    /\ edCommit.saves = 2
    /\ edLastSave.value = <<"a">> /\ ~edFocused

\* C28: while typed text is not yet saved (its debounced save is pending), a
\* refresh of the cache that changes the cell's server value does not
\* replace the typed text.
C28_RefreshKeepsUnsavedText ==
    [][ (/\ edTimer # NoTimer /\ edText = edTimer /\ edText # <<>>
         /\ edInitial' # edInitial)
            => edText' = edText ]_vars

---------------------------------------------------------------------------
(* Claims on the order in a group (under SpecOrder) *)

\* the sort key the table holds for the task id, NullNum without the row
StoredKey(rows, id) ==
    IF \E i \in 1..Len(rows) : rows[i].id = id
    THEN rows[CHOOSE i \in 1..Len(rows) : rows[i].id = id].sort_order
    ELSE NullNum

\* the tasks of a list in the group of a day, a member and an owner
GroupOf(tasks, d, member, ownerId) ==
    FilterSeq(tasks, { t \in Elems(tasks) :
        t.date = d /\ t.member = member /\ t.ownerId = ownerId })

\* the ids of a list of tasks, in its order
Ids(s) == [ i \in 1..Len(s) |-> s[i].id ]

\* C1 as the spec words it: after a successful drop of X onto Y in a group
\* of N tasks (the cache holding the stored group, the table having the
\* sort_order column), the group re-fetched and re-derived has the keys
\* 10, 20, ..., 10N in display order and X immediately before Y, wherever
\* X and Y started.
C1_MovedImmediatelyBeforeTarget ==
    [][ (last'.op = "drop" /\ last'.done = "ok" /\ "sort_order" \notin missing) =>
          \E target \in { r \in Elems(tasksForDay) : r.id = last'.id } :
          \E before \in {SortTasks(GroupOf(tasksAll, target.date, target.member, user.id))} :
          \E stored \in {GroupOf(cloudFetchAll(db), target.date, target.member, user.id)} :
          \E after \in {SortTasks(GroupOf(tasksAll', target.date, target.member, user.id))} :
            Elems(Ids(before)) = Elems(Ids(stored)) =>
                /\ Len(after) = Len(before)
                /\ \A i \in 1..Len(after) : after[i].sortOrder = 10 * i
                /\ \E i \in 1..(Len(after) - 1) :
                      after[i].id = last'.drag /\ after[i + 1].id = last'.id
      ]_vars

\* C1, amended: after a successful drop of X onto Y in a group of N tasks
\* (the cache holding the stored group, the table having the sort_order
\* column), the group re-fetched and re-derived has the keys 10, 20, ...,
\* 10N in display order, X is at the place Y had, which is immediately
\* before Y when X started after Y and immediately after Y when X started
\* before Y, and the other tasks keep their order.
C1_MovedToTargetPlace ==
    [][ (last'.op = "drop" /\ last'.done = "ok" /\ "sort_order" \notin missing) =>
          \E target \in { r \in Elems(tasksForDay) : r.id = last'.id } :
          \E before \in {SortTasks(GroupOf(tasksAll, target.date, target.member, user.id))} :
          \E stored \in {GroupOf(cloudFetchAll(db), target.date, target.member, user.id)} :
          \E after \in {SortTasks(GroupOf(tasksAll', target.date, target.member, user.id))} :
          \E from \in {findIndex(before, last'.drag) + 1} :
          \E to \in {findIndex(before, last'.id) + 1} :
            Elems(Ids(before)) = Elems(Ids(stored)) =>
                /\ from >= 1 /\ to >= 1 /\ from # to
                /\ Len(after) = Len(before)
                /\ \A i \in 1..Len(after) : after[i].sortOrder = 10 * i
                /\ after[to].id = last'.drag
                /\ from > to => after[to + 1].id = last'.id
                /\ from < to => after[to - 1].id = last'.id
                /\ FilterSeq(Ids(after), Elems(Ids(after)) \ {last'.drag})
                      = FilterSeq(Ids(before), Elems(Ids(before)) \ {last'.drag})
      ]_vars

\* the first of three tasks was dropped onto the last: it now comes last,
\* right after its target
C1_Witness ==
    /\ last.op = "drop" /\ last.done = "ok"
    /\ last.from = 0 /\ last.to = 2
    /\ "sort_order" \notin missing
    /\ LET g == SortTasks(GroupOf(tasksAll, date, <<"A">>, user.id))
       IN  /\ Len(g) = 3
           /\ g[2].id = last.id /\ g[3].id = last.drag
           /\ \A i \in 1..3 : g[i].sortOrder = 10 * i

\* C2: addTask gives the new task the sort key 10 when its group (the day,
\* the stored member and the owner of the stored task, in the cache) has no
\* tasks, and otherwise the largest sort key of that group plus 10, a task
\* without a key counting 0.
C2_NewKeyIsGroupMaxPlusTen ==
    [][ (last'.op = "add" /\ last'.id # NoId /\ "sort_order" \notin missing) =>
          LET row   == toTask(db'[Len(db')])
              group == GroupOf(tasksAll, row.date, row.member, row.ownerId)
          IN  /\ row.id = last'.id
              /\ row.sortOrder = IF group = <<>> THEN 10 ELSE MaxOrder(group) + 10
      ]_vars

---------------------------------------------------------------------------
(* Claims on ownership (under SpecOwner) *)

\* the table holds the task id and the user does not own it
ForeignTask(id) ==
    \E i \in 1..Len(db) : db[i].id = id /\ db[i].owner_id # user.id

\* C3: in both view modes, updateTask, deleteTask or a drop called with the
\* id of a task the session user does not own (as the row, the target or
\* the dragged task) leaves the table as it is; and no handler of a user
\* changes or removes a row of another owner.
C3_ForeignTaskUntouched ==
    [][ /\ (last'.op \in {"update", "delete", "drop"}
              /\ (ForeignTask(last'.id) \/ ForeignTask(last'.drag))) => db' = db
        /\ \A i \in 1..Len(db) :
              (user # NoUser /\ db[i].owner_id # user.id) =>
                  \E j \in 1..Len(db') : db'[j] = db[i]
      ]_vars

\* in the "all" view an update of another owner's task went through at the
\* backend and the task still has no actual hours
C3_Witness ==
    /\ viewMode = "all"
    /\ last.op = "update" /\ last.done = "ok"
    /\ ForeignTask(last.id)
    /\ \E i \in 1..Len(db) : db[i].id = last.id /\ db[i].actual_hours = 0

\* C27: in every state where a user is signed in, tasksMine holds only
\* tasks owned by that user, also after a sign-out followed by the sign-in
\* of another user whose initial load has failed.
C27_MineHoldsOwnTasksOnly ==
    user # NoUser => \A t \in Elems(tasksMine) : t.ownerId = user.id

---------------------------------------------------------------------------
(* Claims on the totals (under SpecView) *)

\* the hours of a task: planned as displayed, or actual
Hours(t, which) ==
    IF which = "planned" THEN displayPlanned(t)
    ELSE IF t.actualHours # NullNum THEN t.actualHours ELSE 0

\* the sum of the hours of the tasks of list at the indexes in I
RECURSIVE SumHours(_, _, _)
SumHours(list, I, which) ==
    IF I = {} THEN 0
    ELSE LET i == CHOOSE i \in I : TRUE
         IN  Hours(list[i], which) + SumHours(list, I \ {i}, which)

---------------------------------------------------------------------------
(* Claims on the writes (under Spec) *)

\* the table holds the task id
Persisted(id) == \E i \in 1..Len(db) : db[i].id = id

\* C9 as the spec words it: when the insert of addTask succeeded and the
\* calendar call then fails, the task stays persisted, the failure is
\* alerted, addTask refetches and finishes as a successful creation.
C9_CalendarFailureStillSucceeds ==
    (last.op = "add" /\ last.calendar = "failed") =>
        /\ Persisted(last.id)
        /\ "calendar" \in last.alerts
        /\ last.fetches >= 1
        /\ last.done = "ok" /\ last.reset

\* C9, amended: when the insert of addTask succeeded, the task is persisted
\* whatever the calendar call does; when the calendar call fails, the
\* failure is alerted and addTask still refetches: if both fetches return
\* it finishes as a successful creation (the form is cleared, both lists
\* hold the new task, nothing else is alerted), and if a fetch fails it
\* alerts that the add failed although the task stays persisted.
C9_CalendarFailureKeepsTask ==
    /\ (last.op = "add" /\ last.calendar # "off") => Persisted(last.id)
    /\ (last.op = "add" /\ last.calendar = "failed") =>
          /\ "calendar" \in last.alerts
          /\ last.fetches >= 1
          /\ last.done \in {"ok", "failed"}
          /\ last.done = "ok" =>
                /\ last.reset /\ last.alerts = {"calendar"}
                /\ last.fetches = 2
                /\ \E t \in Elems(tasksAll) : t.id = last.id
                /\ \E t \in Elems(tasksMine) : t.id = last.id
          /\ last.done = "failed" =>
                /\ ~last.reset /\ last.alerts = {"calendar", "add"}
                /\ faults >= 1

\* an add whose calendar call failed finished as a creation
C9_Witness ==
    /\ last.op = "add" /\ last.calendar = "failed"
    /\ last.done = "ok" /\ last.reset
    /\ Persisted(last.id)
    /\ last.alerts = {"calendar"}

\* C10: a mutation call sends at most two write requests: cloudInsertTask
\* and cloudUpdateTask the request and at most one retry, cloudDeleteTask
\* exactly one, and a call whose retry failed sent no third (the handler
\* failed after at most two requests of that call).
C10_AtMostOneRetry ==
    /\ last.most <= 2
    /\ last.op \in {"add", "update"} =>
          (IF last.done = "skipped" THEN last.writes = 0 ELSE last.writes \in 1..2)
    /\ last.op = "delete" => last.writes = 1 /\ last.most = 1
    /\ (last.op = "drop" /\ last.done # "skipped") => last.most \in 1..2

\* without the sort_order column the retry of a key write of a drop failed:
\* the drop ended there, the write having sent two requests
C10_Witness ==
    /\ last.op = "drop" /\ last.done = "failed"
    /\ "sort_order" \in missing
    /\ last.most = 2 /\ last.writes = 2

\* C11: when the backend write of addTask, updateTask or deleteTask fails
\* (the cloud call throws, so no fetch follows), the operation is aborted:
\* the table is as before, the handler's own alert and no other is shown,
\* the add form is not cleared, and tasksMine and tasksAll hold the values
\* they held before the call.
C11_FailedWriteLeavesCaches ==
    [][ (last'.op \in {"add", "update", "delete"}
           /\ last'.done = "failed" /\ last'.fetches = 0) =>
          /\ last'.writes >= 1
          /\ tasksMine' = tasksMine
          /\ tasksAll' = tasksAll
          /\ db' = db
          /\ last'.alerts = {last'.op}
          /\ ~last'.reset
      ]_vars

\* the update of a cached task failed at the backend: the alert is shown and
\* the task is still in both lists and in the table, without the change
C11_Witness ==
    /\ last.op = "update" /\ last.done = "failed"
    /\ last.writes = 1 /\ last.fetches = 0
    /\ last.alerts = {"update"}
    /\ \E t \in Elems(tasksMine) : t.id = last.id /\ t.retrospective = <<>>
    /\ \E t \in Elems(tasksAll) : t.id = last.id /\ t.retrospective = <<>>
    /\ \E i \in 1..Len(db) : db[i].id = last.id /\ db[i].retrospective = <<>>

---------------------------------------------------------------------------
(* Claims on the fields an update may change (under SpecFrame) *)

\* the columns the task view writes to an existing row
EditableCols == {"actual_hours", "status", "retrospective", "done_condition",
                 "sort_order"}

\* C12: every step changes, on a row that is stored before and after it, only
\* columns among actual duration, status, retrospective, completion criteria
\* and sort key: the row's name, category, date, member, owner, start and end
\* times, planned duration (and id and creation timestamp) are as they were,
\* hence as at creation.
C12_OnlyEditableColsChange ==
    [][ \A i \in 1..Len(db), j \in 1..Len(db') :
          db[i].id = db'[j].id =>
              \A c \in DOMAIN db[i] \ EditableCols : db'[j][c] = db[i][c]
      ]_vars

\* a stored row whose actual duration, status, retrospective and completion
\* criteria were all edited and whose sort key was rewritten by a drop, with
\* the fields of its creation
C12_Witness ==
    \E i \in 1..Len(db) :
        /\ db[i].actual_hours = 150 /\ db[i].status = "done"
        /\ db[i].retrospective = <<"r">> /\ db[i].done_condition = <<"c">>
        /\ db[i].id = 1 /\ db[i].sort_order = 20
        /\ db[i].name = <<"t">> /\ db[i].member = <<"A">>
        /\ db[i].planned_hours = 125
        /\ db[i].start_time = TimeStr(9, 0) /\ db[i].end_time = TimeStr(10, 15)

---------------------------------------------------------------------------
(* Claims on the display order (under SpecGroup) *)

\* C13: in every displayed group the tasks are in ascending sort key order,
\* a task without a key comes after every task that has one, and tasks with
\* equal keys or both without a key are in ascending creation timestamp
\* order; the groups are in the order of their member labels, each label
\* once, and every displayed task is in the group of its label.
C13_GroupedOrder ==
    \E G \in {grouped} :
      /\ \A g \in 1..Len(G) :
           \E rows \in {G[g].rows} :
             /\ \A i, j \in 1..Len(rows) : i < j =>
                  /\ rows[i].sortOrder = NullNum => rows[j].sortOrder = NullNum
                  /\ (rows[i].sortOrder # NullNum /\ rows[j].sortOrder # NullNum)
                        => rows[i].sortOrder <= rows[j].sortOrder
                  /\ rows[i].sortOrder = rows[j].sortOrder
                        => rows[i].createdAt <= rows[j].createdAt
             /\ Elems(rows) = { t \in Elems(tasksForDay) : MemberLabel(t) = G[g].label }
             /\ Len(rows) = Cardinality(Elems(rows))
             /\ rows # <<>>
      /\ \A g, h \in 1..Len(G) :
           g < h => localeCompare(G[g].label, G[h].label) < 0
      /\ \A t \in Elems(tasksForDay) :
           \E g \in 1..Len(G) : G[g].label = MemberLabel(t)

\* two groups shown in the order of their labels although the first fetched
\* task is of the second, and in the first group a task with a key shown
\* before the earlier fetched task without one
C13_Witness ==
    /\ Len(grouped) = 2
    /\ grouped[1].label = <<"-">> /\ grouped[2].label = <<"B">>
    /\ MemberLabel(tasksForDay[1]) = <<"B">>
    /\ Len(grouped[1].rows) = 2
    /\ grouped[1].rows[1].sortOrder = 20 /\ grouped[1].rows[1].id = 3
    /\ grouped[1].rows[2].sortOrder = NullNum /\ grouped[1].rows[2].id = 2

\* C14: when a group (the same in the cache and in the table) holds two
\* tasks with the keys 10 and 20, a task added to it is stored with the key
\* 30; and when the group holds three tasks with the keys 10, 20 and 30, a
\* successful drop of the key-30 task onto the key-10 task leaves the moved
\* task with the key 10, the former key-10 task with 20 and the former
\* key-20 task with 30.
C14_AddThenDragRenumbers ==
    [][ /\ (last'.op = "add" /\ last'.id # NoId) =>
             \E row \in {toTask(db'[Len(db')])} :
             \E group \in {SortTasks(GroupOf(tasksAll, row.date, row.member, row.ownerId))} :
             \E stored \in {GroupOf(cloudFetchAll(db), row.date, row.member, row.ownerId)} :
               (/\ Len(group) = 2 /\ Elems(Ids(group)) = Elems(Ids(stored))
                /\ group[1].sortOrder = 10 /\ group[2].sortOrder = 20)
                   => row.sortOrder = 30
        /\ (last'.op = "drop" /\ last'.done = "ok") =>
             \E target \in { r \in Elems(tasksForDay) : r.id = last'.id } :
             \E before \in {SortTasks(GroupOf(tasksAll, target.date, target.member, user.id))} :
             \E stored \in {GroupOf(cloudFetchAll(db), target.date, target.member, user.id)} :
             \E after \in {SortTasks(GroupOf(tasksAll', target.date, target.member, user.id))} :
               (/\ Len(before) = 3 /\ Elems(Ids(before)) = Elems(Ids(stored))
                /\ \A i \in 1..3 : before[i].sortOrder = 10 * i
                /\ before[3].id = last'.drag /\ before[1].id = last'.id)
                   => /\ Len(after) = 3
                      /\ after[1].id = before[3].id /\ after[1].sortOrder = 10
                      /\ after[2].id = before[1].id /\ after[2].sortOrder = 20
                      /\ after[3].id = before[2].id /\ after[3].sortOrder = 30
      ]_vars

---------------------------------------------------------------------------
(* Claims on the missing configuration (under SpecLogin) *)

\* C15: when the backend URL or the public key is absent, the session user
\* is unset at the start and after every step, so the login view with its
\* notice is what is shown; no step sends a sign-in request, a write, a
\* fetch or a calendar request, the table and the caches stay as they are,
\* and every step (a sign-in attempt) ends with the inline error set and
\* the button enabled again.
C15_UnconfiguredIsInert ==
    /\ ~SUPABASE_READY => user = NoUser /\ notice /\ authRequests = 0 /\ last = LastNone
    /\ [][ ~SUPABASE_READY =>
             /\ user' = NoUser /\ screen' = "login" /\ notice'
             /\ authRequests' = 0
             /\ last' = LastNone
             /\ db' = db /\ tasksMine' = tasksMine /\ tasksAll' = tasksAll
             /\ faults' = faults
             /\ loginError' = "unconfigured" /\ ~loginLoading'
         ]_vars

\* a sign-in attempt without the configuration: the inline error is shown
\* on the login view with its notice, nothing was sent
C15_Witness ==
    /\ ~SUPABASE_READY
    /\ loginError = "unconfigured" /\ ~loginLoading
    /\ screen = "login" /\ notice
    /\ authRequests = 0 /\ last = LastNone /\ db = <<>>

---------------------------------------------------------------------------
(* Claims on the calendar event (under SpecCalendar) *)

\* C16: the event built for a task starts at the task's start time, or at
\* 09:00 when the task has none; it ends at the task's end time, or one hour
\* after the start when the task has none, unless that end is not later
\* than the start, and then exactly one hour after the start; and every
\* event that is submitted has its end later than its start.
C16_EventEndsAfterStart ==
    event.kind = "built" =>
        \E hasStart \in {event.startTime # NullStr /\ event.startTime # <<>>} :
        \E hasEnd \in {event.endTime # NullStr /\ event.endTime # <<>>} :
        \E wanted \in {IF hasEnd THEN DateOf(event.endTime) ELSE event.start + 60} :
          /\ event.start = IF hasStart THEN DateOf(event.startTime) ELSE 540
          /\ event.start # InvalidDate =>
               /\ (wanted # InvalidDate /\ wanted > event.start) => event.end = wanted
               /\ (wanted # InvalidDate /\ wanted <= event.start)
                     => event.end = event.start + 60
          /\ event.submitted =>
               /\ event.start # InvalidDate /\ event.end # InvalidDate
               /\ event.end > event.start

\* a submitted event of a task that ends before it starts: its end was
\* forced to one hour after the start
C16_Witness ==
    /\ event.kind = "built" /\ event.submitted
    /\ event.startTime = TimeStr(18, 0) /\ event.endTime = TimeStr(9, 0)
    /\ event.start = 1080 /\ event.end = 1140

---------------------------------------------------------------------------
(* Claims on the performance ledger (under SpecLedger) *)

\* C17: the revenue total is the sum of the amounts of the loaded records of
\* kind revenue, the cost total the sum for kind cost, and every loaded
\* record is of exactly one of the two kinds, so that the two totals
\* together are the sum of all loaded amounts.
C17_TotalsSplitByKind ==
    \E t \in {performanceTotals(records)} :
      /\ t.revenue = SumRecordAmounts(records, {"revenue"})
      /\ t.cost = SumRecordAmounts(records, {"cost"})
      /\ \A i \in 1..Len(records) :
           (records[i].kind = "revenue") # (records[i].kind = "cost")
      /\ t.revenue + t.cost = SumRecordAmounts(records, {records[i].kind : i \in 1..Len(records)})

\* three loaded records, revenue and cost, one of them just submitted
C17_Witness ==
    /\ Len(records) = 3
    /\ records[1].kind = "revenue" /\ records[1].amount = 250
    /\ records[2].kind = "cost" /\ records[2].amount = -50
    /\ records[3].kind = "cost" /\ records[3].amount = 100
    /\ performanceTotals(records) = [revenue |-> 250, cost |-> 50]

---------------------------------------------------------------------------
(* Claims on the retry of the cloud calls (under SpecCall) *)

\* the first error reports an optional column as missing
ColumnError(r) == \E c \in OptionalCols : noSuchColumn(r, c)

Reported(r) == { c \in OptionalCols : noSuchColumn(r, c) }

\* the key of a Task of a column
KeyOf(c) == CHOOSE k \in DOMAIN PatchCol : PatchCol[k] = c

\* the retry carries the optional columns of the first request without the
\* reported ones
RetryStripsReported ==
    /\ Len(call.sent) = 2
    /\ call.sent[2] = call.sent[1] \ Reported(call.first)

\* the row a successful retry leaves: every field the retry kept has the
\* value of the original request, the fields it dropped are as they were
\* (null in an inserted row)
RetryKeepsFields ==
    call.ok =>
      /\ Len(call.rows) = 1
      /\ \E row \in {call.rows[1]} :
           IF call.fn = "insert"
           THEN /\ row.owner_id = CallTask.ownerId /\ row.member = CallTask.member
                /\ row.name = CallTask.name /\ row.category = CallTask.category
                /\ row.date = CallTask.date /\ row.created_at = CallTask.createdAt
                /\ \A c \in {"planned_hours", "actual_hours", "status"} :
                      row[c] = CallTask[KeyOf(c)]
                /\ \A c \in OptionalCols \ Reported(call.first) :
                      row[c] = CallTask[KeyOf(c)]
                /\ \A c \in Reported(call.first) :
                      row[c] = IF c = "sort_order" THEN NullNum ELSE NullStr
           ELSE /\ \A k \in DOMAIN call.patch :
                      PatchCol[k] \notin Reported(call.first)
                          => row[PatchCol[k]] = call.patch[k]
                /\ \A c \in DOMAIN row :
                      (c \in Reported(call.first)
                          \/ c \notin { PatchCol[k] : k \in DOMAIN call.patch })
                          => row[c] = CallRows[1][c]

---------------------------------------------------------------------------
(* Claims on the writes of a drop (under SpecOrder) *)

\* C20: a drop that reaches its writes (the table having the sort_order
\* column) sends one sort-key write per task of the cached group, in the
\* new order (the moved task at the target's place, the others as they
\* were), the n-th writing the key 10n. When every write goes through,
\* every stored task of the group has its new key; when the n-th write
\* fails, exactly n writes were sent, the tasks before it in the new order
\* are stored with their new keys, the failed one and the later ones are
\* stored as before, the user is alerted, no fetch is sent and the caches
\* are as before. No row outside the group changes.
C20_DropWritesInOrderUntilFailure ==
    [][ (last'.op = "drop" /\ last'.writes > 0 /\ "sort_order" \notin missing) =>
          \E target \in { r \in Elems(tasksForDay) : r.id = last'.id } :
          \E before \in {Ids(SortTasks(GroupOf(tasksAll, target.date, target.member, user.id)))} :
          \E without \in {FilterSeq(before, Elems(before) \ {last'.drag})} :
          \E order \in {SubSeq(without, 1, last'.to) \o <<last'.drag>>
                            \o SubSeq(without, last'.to + 1, Len(without))} :
            /\ Len(order) = Len(before)
            /\ last'.writes <= Len(order)
            /\ Len(db') = Len(db)
            /\ \A i \in 1..Len(db) :
                 db[i].id \notin Elems(order) => db'[i] = db[i]
            /\ IF last'.fetches > 0
               THEN /\ last'.writes = Len(order)
                    /\ \A n \in 1..Len(order) :
                         StoredKey(db, order[n]) # NullNum
                             => StoredKey(db', order[n]) = 10 * n
               ELSE /\ \A n \in 1..(last'.writes - 1) :
                         StoredKey(db, order[n]) # NullNum
                             => StoredKey(db', order[n]) = 10 * n
                    /\ \A n \in last'.writes..Len(order) :
                         StoredKey(db', order[n]) = StoredKey(db, order[n])
                    /\ last'.done = "failed" /\ last'.alerts = {"reorder"}
                    /\ tasksMine' = tasksMine /\ tasksAll' = tasksAll
      ]_vars

\* the last of three tasks was dropped onto the first and the second write
\* failed: the moved task is stored with its new key 10, the two others
\* with their old keys 10 and 20, the alert is shown and the cache still
\* has the keys 10, 20, 30
C20_Witness ==
    /\ last.op = "drop" /\ last.done = "failed" /\ last.alerts = {"reorder"}
    /\ last.writes = 2 /\ last.fetches = 0
    /\ last.from = 2 /\ last.to = 0
    /\ StoredKey(db, last.drag) = 10 /\ StoredKey(db, last.id) = 10
    /\ \E t \in Elems(tasksAll) : t.id = last.drag /\ t.sortOrder = 30
    /\ \E r \in Elems(db) : r.sort_order = 20

---------------------------------------------------------------------------
(* Claims on the failures shown to the user (under Spec) *)

\* C22: every failed backend request of the task view, of a query as of a
\* mutation and of the initial load after sign-in, is surfaced as an alert:
\* a handler or effect that ended on a failed request has called alert().
C22_EveryFailureAlerted ==
    last.done = "failed" => last.alerts \ {"calendar"} # {}

\* C24: after any sequence of addTask and successful reorder operations of
\* one session (no request has failed so far), no two stored tasks of the
\* same (date, member, owner) group have the same sort key.
C24_GroupKeysDistinct ==
    faults = 0 =>
        \A i, j \in 1..Len(db) :
            (/\ i # j
             /\ db[i].date = db[j].date /\ db[i].member = db[j].member
             /\ db[i].owner_id = db[j].owner_id
             /\ db[i].sort_order # NullNum)
                => db[i].sort_order # db[j].sort_order

\* C25: a reorder only moves the dragged task: a successful drop writes the
\* keys of the tasks of the target's cached group and of no other task,
\* adds and removes no task and changes no other field; with the sort_order
\* column the keys it leaves on the group's stored tasks are distinct keys
\* among 10, 20, ..., 10n, and any two of them other than the dragged one
\* are in the order they were displayed in before.
C25_DropMovesOnlyDragged ==
    [][ (last'.op = "drop" /\ last'.done = "ok") =>
          \E target \in { r \in Elems(tasksForDay) : r.id = last'.id } :
          \E before \in {Ids(SortTasks(GroupOf(tasksAll, target.date,
                                               target.member, user.id)))} :
            /\ Len(db') = Len(db)
            /\ \A i \in 1..Len(db) :
                  /\ db'[i] = [ db[i] EXCEPT !.sort_order = db'[i].sort_order ]
                  /\ db[i].id \notin Elems(before) => db'[i] = db[i]
            /\ "sort_order" \in missing => db' = db
            /\ "sort_order" \notin missing =>
                  \A p, q \in 1..Len(before) :
                     (p < q /\ StoredKey(db', before[p]) # NullNum
                            /\ StoredKey(db', before[q]) # NullNum) =>
                        /\ StoredKey(db', before[p]) \in { 10 * n : n \in 1..Len(before) }
                        /\ StoredKey(db', before[q]) \in { 10 * n : n \in 1..Len(before) }
                        /\ StoredKey(db', before[p]) # StoredKey(db', before[q])
                        /\ (before[p] # last'.drag /\ before[q] # last'.drag) =>
                              StoredKey(db', before[p]) < StoredKey(db', before[q])
      ]_vars

\* the last of three tasks was dropped onto the first: it is stored with
\* the key 10 and the two others follow in their former order
C25_Witness ==
    /\ last.op = "drop" /\ last.done = "ok"
    /\ last.from = 2 /\ last.to = 0
    /\ LET g == SortTasks(GroupOf(cloudFetchAll(db), date, <<"A">>, user.id))
       IN  /\ Len(g) = 3
           /\ g[1].id = last.drag /\ g[2].id = last.id
           /\ \A i \in 1..3 : g[i].sortOrder = 10 * i
           /\ g[2].createdAt < g[3].createdAt /\ g[3].createdAt < g[1].createdAt

---------------------------------------------------------------------------
(* Claims on overlapping refetches (under SpecRace) *)

\* C23: when two refetches of the task cache are in flight at once, none is
\* cancelled and the cache holds the result of the one that resolves last:
\* a call that awaits an answer is changed by its own steps only, and the
\* step in which a call's last fetch returns sets both lists to that call's
\* results, whichever calls were started or have returned before.
C23_LastResolverWins ==
    [][ \A i \in 1..Len(flights) :
          /\ flights'[i] # flights[i] =>
                \A j \in 1..Len(flights) : j # i => flights'[j] = flights[j]
          /\ flights[i].pc = "done" => flights'[i] = flights[i]
          /\ (flights[i].pc = "resolve" /\ flights'[i] # flights[i]) =>
                /\ flights'[i].pc = "done" /\ flights'[i].alerts = NoAlerts
                /\ tasksMine' = flights[i].mine
                /\ tasksAll' = flights[i].all ]_vars

\* two calls have returned; the lists hold the result of the call started
\* first, which lacks the second call's write, while the second call's
\* result is what the table holds
C23_Witness ==
    /\ Len(flights) = 2
    /\ \A i \in 1..2 : flights[i].pc = "done" /\ flights[i].alerts = NoAlerts
    /\ tasksAll = flights[1].all /\ tasksMine = flights[1].mine
    /\ flights[2].all = cloudFetchAll(db)
    /\ tasksAll # flights[2].all

---------------------------------------------------------------------------
(* Claims on the drops that do nothing (under SpecDrop) *)

\* C26: a drop sends no write and changes no state other than clearing the
\* drag marker when the dragged task and the target are not both in the
\* target's cached (date, member, session-owner) group, when the task is
\* dropped on itself, or when no drag is in progress.
C26_IdleDropOnlyClearsMarker ==
    [][ last'.op = "drop" =>
          \A target \in { r \in Elems(tasksForDay) : r.id = last'.id } :
          \E group \in {Elems(Ids(GroupOf(tasksAll, target.date, target.member,
                                          user.id)))} :
            (\/ draggingId = NoId
             \/ draggingId = target.id
             \/ draggingId \notin group
             \/ target.id \notin group)
                => /\ draggingId' = NoId
                   /\ last'.writes = 0 /\ last'.fetches = 0
                   /\ last'.alerts = NoAlerts /\ last'.done = "skipped"
                   /\ UNCHANGED <<db, nextId, missing, user, tasksMine, tasksAll,
                                  date, viewMode, memberFilter, faults>>
      ]_vars

\* in the "all" view the second user has dropped the own dragged task on a
\* task of the first user: nothing but the marker has changed
C26_Witness ==
    /\ last.op = "drop" /\ last.done = "skipped"
    /\ last.drag # NoId /\ last.drag # last.id
    /\ last.from >= 0 /\ last.to < 0
    /\ draggingId = NoId
    /\ viewMode = "all" /\ user.id = "u2"
    /\ \E t \in Elems(tasksAll) : t.id = last.id /\ t.ownerId = "u1"
    /\ \E t \in Elems(tasksAll) : t.id = last.drag /\ t.ownerId = "u2"

---------------------------------------------------------------------------
(* Claims on the ledger's requests on the way (under SpecLedgerAsync) *)

\* C29: whenever an insert of a kind is in flight, that kind's submit
\* button is disabled (submitting = (savingKind === kind)), also when a
\* submit of the other kind starts or finishes meanwhile.
C29_InFlightKindIsDisabled ==
    \A i \in 1..Len(inserts) :
        inserts[i].pc # "done" => savingKind = inserts[i].kind

\* C30 (as stated): the result of a superseded fetch is never applied:
\* records only ever hold the result of the most recently started fetch, or
\* are empty.
C30_RecordsOfLatestFetchOrEmpty ==
    \/ records = <<>>
    \/ /\ loads # <<>>
       /\ loads[Len(loads)].pc = "done"
       /\ records = loads[Len(loads)].data

\* C30 (amended): the answer of a run of the load effect that was superseded
\* (a later run has started, or the user is no longer the run's) changes
\* neither the records nor the error nor the loading state; the records are
\* only ever set to empty or, by the answer of the run started last for the
\* present user, to that run's result, and they keep the result applied
\* before until then.
C30_SupersededFetchNeverApplied ==
    [][ /\ \A i \in 1..Len(loads) :
             (/\ loads[i].pc = "answered" /\ loads'[i].pc = "done"
              /\ (i < Len(loads) \/ loads[i].owner # userId))
                => /\ UNCHANGED <<records, perfError, loading>>
                   /\ ~loads'[i].applied
        /\ records' # records =>
             \/ records' = <<>>
             \/ /\ loads # <<>>
                /\ loads[Len(loads)].pc = "answered"
                /\ loads'[Len(loads)].pc = "done"
                /\ loads[Len(loads)].owner = userId
                /\ records' = loads[Len(loads)].data ]_vars

\* the first user's run was answered with a record, the user changed, and
\* the run's answer arrived and was left aside: the records are those of
\* the second user's run
C30_Witness ==
    /\ Len(loads) = 2
    /\ loads[1].owner = "u1" /\ loads[1].pc = "done" /\ ~loads[1].applied
    /\ Len(loads[1].data) = 1
    /\ userId = "u2"
    /\ loads[2].pc = "done" /\ loads[2].applied
    /\ records = loads[2].data /\ records # loads[1].data

=============================================================================
